---- MODULE Spec2Model ----
(***************************************************************************)
(* Model of the merge-pairing algorithm processRoundEvents of              *)
(* server/utils/pairing.ts.                                                *)
(*                                                                         *)
(* The function walks a list of event records once.  The model processes   *)
(* one event per step: the event is chosen when it is processed and is     *)
(* appended to `events`, so `events` is always the prefix of the input     *)
(* that the for-loop has consumed.  Finalize is the code after the loop    *)
(* (finalization pass, totals, return).                                    *)
(*                                                                         *)
(* Share quantities are JavaScript numbers.  They are modelled in fixed    *)
(* point: one unit is 0.00025 share, so the tolerance 0.001 of the code    *)
(* is 4 units and quantities both below and above the tolerance occur.     *)
(* Identifiers (_id) and timestamps (ts) of the k-th input event are k.    *)
(***************************************************************************)
EXTENDS Integers, Sequences, FiniteSets, TLC

VARIABLES events, yesQueue, noQueue, buys, merges, errors, roundStart,
          roundEnd, market, mode, mergeGroupCounter, pc, summary, profile,
          store, request, response, listing, stream, ui, client, feed,
          cache

vars == <<events, yesQueue, noQueue, buys, merges, errors, roundStart,
          roundEnd, market, mode, mergeGroupCounter, pc, summary, profile,
          store, request, response, listing, stream, ui, client, feed,
          cache>>

\* The state of one processRoundEvents call and of the round query around it.
processVars == <<events, yesQueue, noQueue, buys, merges, errors, roundStart,
                 roundEnd, market, mode, mergeGroupCounter, pc, summary,
                 profile>>

\* The state of the stream client, of the live feed and of the market-info
\* handler.
feedVars == <<client, feed, cache>>

queryVars == <<store, request, response, listing, stream, ui, client, feed,
               cache>>

\* ---------------------------------------------------------------- bounds
\* Longest input list explored.
MaxEvents == 4

\* Longest input list explored when market and mode vary from event to
\* event.
MaxMetaEvents == 3

\* Longest input list explored when payloads and fields may be missing.
MaxAnyEvents == 3

\* Most records the event store holds, and their largest timestamp.
MaxStore == 3
MaxTs == 2

\* Most notifications the page receives, and most other things that happen
\* to it (selections, switches, refresh ticks).
MaxNotifications == 3
MaxUiSteps == 2

\* Most polls one stream connection starts, and most of them that wait for
\* the store at the same time.
MaxPolls == 3
MaxInFlight == 2

\* Most calls of start() on the live feed, most WebSockets it creates and
\* most trade messages it receives between two clearData().
MaxStarts == 2
MaxSockets == 2
MaxMessages == 4

\* Most requests to /api/market-info, and the last tick of its clock.
MaxInfoRequests == 4
MaxClock == 3

\* Most requests one stream client sends to /api/stream, and most
\* reconnect timers it has armed at the same time.
MaxConnections == 3
MaxTimers == 2

\* ------------------------------------------------------------- constants
\* The tolerance 0.001 of the code, in units of 0.00025 share.
Eps == 4

\* The null of roundStart / roundEnd / summary.
Null == "null"

\* The null of latestCryptoPrice.
NullPrice == -999997

\* MAX_POINTS (3600), scaled to the series explored.
MAX_POINTS == 2

\* Date.now() when a trade message without T arrives.
FeedNow == 1

\* CACHE_TTL_MS (5 minutes), in ticks of the clock explored.
CACHE_TTL_MS == 2

\* The page size of a poll (.limit(100)), scaled to the stores explored.
Limit == 2

\* JavaScript's undefined (what reading a missing numeric field gives) and
\* NaN (what arithmetic on undefined gives), as two values no quantity of
\* the model takes.
Undefined == -999999
NaN == -999998

\* ----------------------------------------------------------------- inputs
\* Buy sizes (units of 0.00025 share): below, just above and well above Eps.
\* Share quantities of well-formed records are positive.
Sizes == {2, 6, 8, 16}

\* Buy sides as written by the trading process.
Sides == {"YES", "NO"}

\* Merge payloads: requested pair count, per-pair cost and profit.
MergePayloads ==
    { [pairs |-> 5,  pair_cost |-> 1, profit |-> 2],
      [pairs |-> 8,  pair_cost |-> 2, profit |-> -1],
      [pairs |-> 10, pair_cost |-> 3, profit |-> 1] }

\* data.market and mode carried by the records of one round.
Markets == {"btc-updown-february-19-2am-et"}
Modes == {"production"}

\* Event kinds outside the five the switch knows.
OtherKinds == {"Hedge"}

\* The inputs are drawn per profile, which a run never changes:
\*   "round"  the records of one round in one mode, quantities vary;
\*   "meta"   data.market and mode vary from record to record (they may be
\*            missing, which reads as falsy like ""), quantities do not;
\*   "any"    records as any writer may leave them: no data payload, no
\*            side, no size, no pairs, no profit, sizes zero or negative.
\*            A missing string field reads as "".
AnyBuyInputs ==
    { [side |-> "YES", size |-> Undefined],
      [side |-> "YES", size |-> 0],
      [side |-> "YES", size |-> -6],
      [side |-> "YES", size |-> 8],
      [side |-> "YES", size |-> 16],
      [side |-> "NO",  size |-> 8],
      [side |-> "",    size |-> Undefined],
      [side |-> "",    size |-> 8],
      [side |-> "yes", size |-> 8] }

AnyMergeInputs ==
    { [pairs |-> Undefined, pair_cost |-> Undefined, profit |-> Undefined],
      [pairs |-> 10, pair_cost |-> 3, profit |-> Undefined],
      [pairs |-> 10, pair_cost |-> 3, profit |-> 1] }

MetaTags ==
    { [market |-> "", mode |-> ""],
      [market |-> "btc-updown-february-19-2am-et", mode |-> ""],
      [market |-> "btc-updown-february-19-2am-et", mode |-> "production"],
      [market |-> "eth-updown-february-19-2am-et", mode |-> "simulation"] }

Tags ==
    IF profile = "meta" THEN MetaTags
    ELSE {[market |-> mk, mode |-> md] : mk \in Markets, md \in Modes}

BuyInputs ==
    IF profile = "meta" THEN {[side |-> "YES", size |-> 8]}
    ELSE IF profile = "any" THEN AnyBuyInputs
    ELSE {[side |-> sd, size |-> sz] : sd \in Sides, sz \in Sizes}

MergeInputs ==
    IF profile = "meta" THEN {[pairs |-> 5, pair_cost |-> 1, profit |-> 2]}
    ELSE IF profile = "any" THEN AnyMergeInputs
    ELSE MergePayloads

\* Whether a record carries a data payload.
Payloads == IF profile = "any" THEN {"object", "none"} ELSE {"object"}

InputLimit ==
    IF profile = "meta" THEN MaxMetaEvents
    ELSE IF profile = "any" THEN MaxAnyEvents
    ELSE MaxEvents

\* ---------------------------------------------------------------- helpers
\* JavaScript numbers: arithmetic on undefined or NaN gives NaN, and every
\* comparison with undefined or NaN is false.
IsNum(a) == a \notin {Undefined, NaN}

\* Math.min
Min(a, b) == IF IsNum(a) /\ IsNum(b) THEN (IF a < b THEN a ELSE b) ELSE NaN

\* a + b and a - b
Plus(a, b) == IF IsNum(a) /\ IsNum(b) THEN a + b ELSE NaN
Minus(a, b) == IF IsNum(a) /\ IsNum(b) THEN a - b ELSE NaN

\* a > b and a < b
Greater(a, b) == IsNum(a) /\ IsNum(b) /\ a > b
Less(a, b) == IsNum(a) /\ IsNum(b) /\ a < b

Range(s) == {s[i] : i \in 1..Len(s)}

\* The event record the loop reads next: _id and ts are its position.
MkEvent(kind, md, data) ==
    [event |-> kind, _id |-> Len(events) + 1, ts |-> Len(events) + 1,
     mode |-> md, data |-> data]

\* ------------------------------------------------------- payload (l.78)
\* evt.data of a record that has none (undefined), and the {} that stands
\* in for it: each field reads as missing.
EmptyObject ==
    [market |-> "", side |-> "", size |-> Undefined, pairs |-> Undefined,
     pair_cost |-> Undefined, profit |-> Undefined, message |-> "",
     context |-> ""]

NoPayload ==
    [absent |-> TRUE, market |-> "", side |-> "", size |-> Undefined,
     pairs |-> Undefined, pair_cost |-> Undefined, profit |-> Undefined,
     message |-> "", context |-> ""]

Payload(pl, data) == IF pl = "none" THEN NoPayload ELSE data

\* Mutant: the payload is used as it comes.
DataOfRaw(evt) == evt.data

\* const data = evt.data || {}
DataOf(evt) == IF "absent" \in DOMAIN evt.data THEN EmptyObject ELSE evt.data

\* Reading a property of undefined raises a TypeError.
Raises(data) == "absent" \in DOMAIN data

\* ------------------------------------------------ market / mode (l.78-80)
\* Mutant: every event that carries a market overwrites it.
CaptureMarketLast(cur, evt) ==
    IF DataOf(evt).market # "" THEN DataOf(evt).market ELSE cur

CaptureMarket(cur, evt) ==
    IF cur = "" /\ DataOf(evt).market # "" THEN DataOf(evt).market ELSE cur

CaptureMode(cur, evt) ==
    IF cur = "" /\ evt.mode # "" THEN evt.mode ELSE cur

\* ----------------------------------------------------------- Buy (l.88-116)
NewBuy(evt) ==
    [_id |-> evt._id, ts |-> evt.ts, mode |-> evt.mode,
     side |-> DataOf(evt).side, size |-> DataOf(evt).size,
     consumedSize |-> 0, merged |-> FALSE, mergeGroupIds |-> <<>>]

NewEntry(evt, ref) ==
    [buyId |-> evt._id, remaining |-> DataOf(evt).size, buyRef |-> ref]

\* Mutant: every side but NO goes to the YES queue.
OnYesQueueUnlessNo(side) == side # "NO"

\* data.side === 'YES' ? yesQueue : noQueue  (l.109)
OnYesQueue(side) == side = "YES"

\* Mutant: the entry is put at the front of the queue (unshift).
PushFront(queue, entry) == <<entry>> \o queue

\* queue.push: the entry goes to the back of the queue.
Push(queue, entry) == Append(queue, entry)

\* --------------------------------------------------- Merge (l.118-176)
\* Mutant: post-increment read, group ids start at 0.
NextGroupIdPostIncrement(counter) == counter

\* Mutant: the group id advances only when a queue has supply.
NextGroupIdIfSupply(counter) ==
    IF yesQueue = <<>> /\ noQueue = <<>> THEN counter ELSE counter + 1

NextGroupId(counter) == counter + 1

\* Mutant: the loop stops one entry early.
DrainMoreButLast(remainingSide, queue) ==
    Greater(remainingSide, Eps) /\ Len(queue) > 1

\* Loop condition of a drain loop.
DrainMore(remainingSide, queue) ==
    Greater(remainingSide, Eps) /\ Len(queue) > 0

\* Mutant: a draw takes at most 0.00125 at a time.
TakeChunked(front, remainingSide) ==
    Min(Min(front.remaining, remainingSide), 5)

\* Mutant: the take is not capped by what the front entry holds.
TakeUncapped(front, remainingSide) == remainingSide

Take(front, remainingSide) == Min(front.remaining, remainingSide)

\* Mutant: the front entry is shifted after every draw.
ExhaustedAlways(remaining) == TRUE

\* The front entry is exhausted: mark merged and shift.
Exhausted(remaining) == Less(remaining, Eps)

AddConsumed(ids, buyId) ==
    IF buyId \in Range(ids) THEN ids ELSE Append(ids, buyId)

\* Mutant: consumedSize is assigned the take instead of increased by it.
DrainStepAssign(d, groupId) ==
    LET front == Head(d.queue)
        take  == Take(front, d.remainingSide)
        left  == Minus(front.remaining, take)
        b     == d.buys[front.buyRef]
        b2    == [b EXCEPT !.consumedSize = take,
                           !.mergeGroupIds = Append(@, groupId),
                           !.merged = IF Exhausted(left) THEN TRUE ELSE @]
    IN [queue |-> IF Exhausted(left)
                  THEN Tail(d.queue)
                  ELSE <<[front EXCEPT !.remaining = left]>> \o Tail(d.queue),
        buys |-> [d.buys EXCEPT ![front.buyRef] = b2],
        remainingSide |-> Minus(d.remainingSide, take),
        consumedBuyIds |-> AddConsumed(d.consumedBuyIds, front.buyId)]

\* One iteration of a drain loop on state d =
\* [queue, buys, remainingSide, consumedBuyIds].
DrainStep(d, groupId) ==
    LET front == Head(d.queue)
        take  == Take(front, d.remainingSide)
        left  == Minus(front.remaining, take)
        b     == d.buys[front.buyRef]
        b2    == [b EXCEPT !.consumedSize = Plus(@, take),
                           !.mergeGroupIds = Append(@, groupId),
                           !.merged = IF Exhausted(left) THEN TRUE ELSE @]
    IN [queue |-> IF Exhausted(left)
                  THEN Tail(d.queue)
                  ELSE <<[front EXCEPT !.remaining = left]>> \o Tail(d.queue),
        buys |-> [d.buys EXCEPT ![front.buyRef] = b2],
        remainingSide |-> Minus(d.remainingSide, take),
        consumedBuyIds |-> AddConsumed(d.consumedBuyIds, front.buyId)]

RECURSIVE Drain(_, _)
Drain(d, groupId) ==
    IF DrainMore(d.remainingSide, d.queue)
    THEN Drain(DrainStep(d, groupId), groupId)
    ELSE d

\* Mutant: the NO loop starts a list of its own, which replaces the YES one.
DrainBothOwnList(pairsToConsume, groupId) ==
    LET dy == Drain([queue |-> yesQueue, buys |-> buys,
                     remainingSide |-> pairsToConsume,
                     consumedBuyIds |-> <<>>], groupId)
        dn == Drain([queue |-> noQueue, buys |-> dy.buys,
                     remainingSide |-> pairsToConsume,
                     consumedBuyIds |-> <<>>], groupId)
    IN [yesQueue |-> dy.queue, noQueue |-> dn.queue, buys |-> dn.buys,
        consumedBuyIds |-> dn.consumedBuyIds]

\* Mutant: the NO side is asked only for what the YES side supplied.
DrainBothCoupled(pairsToConsume, groupId) ==
    LET dy == Drain([queue |-> yesQueue, buys |-> buys,
                     remainingSide |-> pairsToConsume,
                     consumedBuyIds |-> <<>>], groupId)
        dn == Drain([queue |-> noQueue, buys |-> dy.buys,
                     remainingSide |-> pairsToConsume - dy.remainingSide,
                     consumedBuyIds |-> dy.consumedBuyIds], groupId)
    IN [yesQueue |-> dy.queue, noQueue |-> dn.queue, buys |-> dn.buys,
        consumedBuyIds |-> dn.consumedBuyIds]

\* The two drain loops of a Merge: YES queue, then NO queue, each against
\* the full requested pair count, sharing one consumedBuyIds list.
DrainBoth(pairsToConsume, groupId) ==
    LET dy == Drain([queue |-> yesQueue, buys |-> buys,
                     remainingSide |-> pairsToConsume,
                     consumedBuyIds |-> <<>>], groupId)
        dn == Drain([queue |-> noQueue, buys |-> dy.buys,
                     remainingSide |-> pairsToConsume,
                     consumedBuyIds |-> dy.consumedBuyIds], groupId)
    IN [yesQueue |-> dy.queue, noQueue |-> dn.queue, buys |-> dn.buys,
        consumedBuyIds |-> dn.consumedBuyIds]

\* Mutant: a merge that drew nothing reports no profit.
NewMergeReconciled(evt, groupId, consumedBuyIds) ==
    [_id |-> evt._id, ts |-> evt.ts, mode |-> evt.mode,
     mergeGroupId |-> groupId, pairs |-> DataOf(evt).pairs,
     pairCost |-> DataOf(evt).pair_cost,
     profit |-> IF consumedBuyIds = <<>> THEN 0 ELSE DataOf(evt).profit,
     consumedBuyIds |-> consumedBuyIds]

NewMerge(evt, groupId, consumedBuyIds) ==
    [_id |-> evt._id, ts |-> evt.ts, mode |-> evt.mode,
     mergeGroupId |-> groupId, pairs |-> DataOf(evt).pairs,
     pairCost |-> DataOf(evt).pair_cost, profit |-> DataOf(evt).profit,
     consumedBuyIds |-> consumedBuyIds]

\* ------------------------------------------------- finalization (l.208-233)
\* Mutant: the finalization pass sets the flag instead of clearing it.
FinalMergedInverted(b, queued) ==
    IF \E i \in 1..Len(queued) :
          queued[i].buyRef = b /\ Greater(queued[i].remaining, Eps)
    THEN TRUE
    ELSE buys[b].merged

FinalMerged(b, queued) ==
    IF \E i \in 1..Len(queued) :
          queued[i].buyRef = b /\ Greater(queued[i].remaining, Eps)
    THEN FALSE
    ELSE buys[b].merged

RECURSIVE TotalProfit(_)
TotalProfit(ms) ==
    IF ms = <<>> THEN 0 ELSE Plus(Head(ms).profit, TotalProfit(Tail(ms)))

\* Mutant: the entries are counted instead of their remaining summed.
UnmergedCount(queue) == Len(queue)

RECURSIVE Unmerged(_)
Unmerged(queue) ==
    IF queue = <<>> THEN 0
    ELSE Plus(Head(queue).remaining, Unmerged(Tail(queue)))

\* ------------------------------------------------------------------- Init
\* The slugs asked of /api/market-info.
CacheSlugs ==
    {"bitcoin-up-or-down-february-19-2am-et",
     "ethereum-up-or-down-february-19-2am-et"}

\* CACHE.get(slug) of a slug never set.  An entry holds its data (the
\* number of the resolution that produced it), expiresAt, and the time it
\* was set.
NoEntry == [present |-> FALSE, data |-> 0, expiresAt |-> 0, setAt |-> 0]

\* A connection the stream handler has not yet begun to serve.
IdleStream ==
    [phase |-> "idle", start |-> [kind |-> "none", id |-> 0],
     existing |-> 0, lastId |-> [kind |-> "none", id |-> 0],
     polls |-> <<>>, started |-> 0, delivered |-> <<>>, messages |-> <<>>]

InitProfile(p) ==
    /\ profile = p
    /\ events = <<>>
    /\ yesQueue = <<>>
    /\ noQueue = <<>>
    /\ buys = <<>>
    /\ merges = <<>>
    /\ errors = <<>>
    /\ roundStart = Null
    /\ roundEnd = Null
    /\ market = ""
    /\ mode = ""
    /\ mergeGroupCounter = 0
    /\ pc = "loop"
    /\ summary = Null
    /\ store = <<>>
    /\ request = [market |-> "", mode |-> ""]
    /\ response = [status |-> 0, queried |-> FALSE, invoked |-> FALSE,
                   events |-> <<>>, errors |-> <<>>]
    /\ listing = [status |-> 0, groups |-> <<>>]
    /\ stream = IF p = "client" THEN [IdleStream EXCEPT !.phase = "closed"]
                ELSE IdleStream
    /\ ui = [phase |-> "setup", selectedMarket |-> "", autoTrack |-> TRUE,
             modeFilter |-> "all", lastEvent |-> [event |-> "", market |-> ""],
             notified |-> 0, steps |-> 0, callbacks |-> <<>>,
             timers |-> <<>>, marketFetches |-> 0, roundFetches |-> <<>>,
             pending |-> <<>>, roundData |-> [market |-> "", mode |-> ""],
             roundError |-> FALSE]
    /\ client = [phase |-> "setup", eventSource |-> "null", failed |-> FALSE,
                 connected |-> FALSE, timers |-> 0, opened |-> 0, read |-> 0,
                 passed |-> <<>>, base |-> -1]
    /\ feed = [connected |-> FALSE, cryptoPrice |-> <<>>,
               latestCryptoPrice |-> NullPrice, cryptoSymbol |-> "",
               binanceWs |-> 0, currentSlug |-> "", sockets |-> <<>>,
               starts |-> <<>>, started |-> 0, requested |-> "",
               heard |-> <<>>]
    /\ cache = [now |-> 0,
                entries |-> [slug \in CacheSlugs |-> NoEntry],
                resolving |-> <<>>, requests |-> 0, calls |-> 0,
                resolved |-> 0, hits |-> 0,
                response |-> [slug |-> "", status |-> 0, data |-> 0]]

Init == InitProfile("round")

InitMeta == InitProfile("meta")

InitAny == InitProfile("any")

\* What every loop iteration does before the switch.  The first read of a
\* field of data (l.79) raises when data is undefined, which ends the call.
Consume(evt) ==
    /\ pc = "loop"
    /\ Len(events) < InputLimit
    /\ events' = Append(events, evt)
    /\ market' = CaptureMarket(market, evt)
    /\ mode' = CaptureMode(mode, evt)
    /\ pc' = IF Raises(DataOf(evt)) THEN "raised" ELSE "loop"
    /\ UNCHANGED <<summary, profile>>
    /\ UNCHANGED queryVars

RoundStart ==
    \E tag \in Tags, pl \in Payloads :
      LET evt == MkEvent("RoundStart", tag.mode,
                         Payload(pl, [market |-> tag.market]))
      IN
        /\ Consume(evt)
        /\ roundStart' = evt.ts
        /\ UNCHANGED <<yesQueue, noQueue, buys, merges, errors, roundEnd,
                       mergeGroupCounter>>

Buy ==
    \E tag \in Tags, pl \in Payloads, inp \in BuyInputs :
      LET evt == MkEvent("Buy", tag.mode,
                         Payload(pl, [market |-> tag.market,
                                      side |-> inp.side, size |-> inp.size]))
          ref == Len(buys) + 1
      IN
        /\ Consume(evt)
        /\ buys' = Append(buys, NewBuy(evt))
        /\ IF OnYesQueue(DataOf(evt).side)
           THEN /\ yesQueue' = Push(yesQueue, NewEntry(evt, ref))
                /\ UNCHANGED noQueue
           ELSE /\ noQueue' = Push(noQueue, NewEntry(evt, ref))
                /\ UNCHANGED yesQueue
        /\ UNCHANGED <<merges, errors, roundStart, roundEnd,
                       mergeGroupCounter>>

Merge ==
    \E tag \in Tags, pl \in Payloads, p \in MergeInputs :
      LET evt == MkEvent("Merge", tag.mode,
                         Payload(pl, [market |-> tag.market,
                                      pairs |-> p.pairs,
                                      pair_cost |-> p.pair_cost,
                                      profit |-> p.profit]))
          groupId == NextGroupId(mergeGroupCounter)
          d == DrainBoth(DataOf(evt).pairs, groupId)
      IN
        /\ Consume(evt)
        /\ mergeGroupCounter' = groupId
        /\ yesQueue' = d.yesQueue
        /\ noQueue' = d.noQueue
        /\ buys' = d.buys
        /\ merges' = Append(merges, NewMerge(evt, groupId, d.consumedBuyIds))
        /\ UNCHANGED <<errors, roundStart, roundEnd>>

RoundEnd ==
    \E tag \in Tags, pl \in Payloads :
      LET evt == MkEvent("RoundEnd", tag.mode,
                         Payload(pl, [market |-> tag.market]))
      IN
        /\ Consume(evt)
        /\ roundEnd' = [ts |-> evt.ts]
        /\ UNCHANGED <<yesQueue, noQueue, buys, merges, errors, roundStart,
                       mergeGroupCounter>>

\* Mutant: the context of the payload is dropped.
ErrorRecordNoContext(evt) ==
    [_id |-> evt._id, ts |-> evt.ts, message |-> DataOf(evt).message,
     context |-> ""]

\* The record an Error event leaves in errors.
ErrorRecord(evt) ==
    [_id |-> evt._id, ts |-> evt.ts, message |-> DataOf(evt).message,
     context |-> DataOf(evt).context]

Error ==
    \E tag \in Tags, pl \in Payloads :
      LET evt == MkEvent("Error", tag.mode,
                         Payload(pl, [market |-> tag.market,
                                      message |-> "msg", context |-> "ctx"]))
      IN
        /\ Consume(evt)
        /\ errors' = Append(errors, ErrorRecord(evt))
        /\ UNCHANGED <<yesQueue, noQueue, buys, merges, roundStart, roundEnd,
                       mergeGroupCounter>>

\* Mutant: the switch has a default case that records the event as an error.
OtherAsError ==
    \E tag \in Tags, k \in OtherKinds :
      LET evt == MkEvent(k, tag.mode, [market |-> tag.market,
                                       message |-> "", context |-> ""])
      IN
        /\ Consume(evt)
        /\ errors' = Append(errors, ErrorRecord(evt))
        /\ UNCHANGED <<yesQueue, noQueue, buys, merges, roundStart,
                       roundEnd, mergeGroupCounter>>

\* An event of a kind the switch has no case for.
Other ==
    \E tag \in Tags, pl \in Payloads, k \in OtherKinds :
      LET evt == MkEvent(k, tag.mode, Payload(pl, [market |-> tag.market]))
      IN
        /\ Consume(evt)
        /\ UNCHANGED <<yesQueue, noQueue, buys, merges, errors, roundStart,
                       roundEnd, mergeGroupCounter>>

\* The input is exhausted: finalization pass, totals and return.
Finalize ==
    /\ pc = "loop"
    /\ pc' = "done"
    /\ buys' = [b \in 1..Len(buys) |->
                  [buys[b] EXCEPT !.merged = FinalMerged(b, yesQueue \o noQueue)]]
    /\ summary' = [market |-> market, mode |-> mode,
                   roundStart |-> roundStart, roundEnd |-> roundEnd,
                   buys |-> buys', merges |-> merges, errors |-> errors,
                   totalBuys |-> Len(buys), totalMerges |-> Len(merges),
                   totalProfit |-> TotalProfit(merges),
                   unmergedYes |-> Unmerged(yesQueue),
                   unmergedNo |-> Unmerged(noQueue)]
    /\ UNCHANGED <<events, yesQueue, noQueue, merges, errors, roundStart,
                   roundEnd, market, mode, mergeGroupCounter, profile>>
    /\ UNCHANGED queryVars

Next ==
    \/ RoundStart
    \/ Buy
    \/ Merge
    \/ RoundEnd
    \/ Error
    \/ Other
    \/ Finalize

Spec == Init /\ [][Next]_vars

\* The same program on inputs whose market and mode vary.
SpecMeta == InitMeta /\ [][Next]_vars

\* The same program on records with missing payloads and fields.
SpecAny == InitAny /\ [][Next]_vars

\* --------------------------------------- round query (api/events.get.ts)
\* Until a request is answered response.status is 0.
\*
\* Markets and modes of the stored records; a record of another collection
\* user may carry no data.market ("").
StoreMarkets == {"", "btc-updown-february-19-2am-et",
                 "eth-updown-february-19-2am-et"}
StoreModes == {"production", "simulation"}

\* The query parameters of a request; "" is a parameter left out.
QueryMarkets == StoreMarkets
QueryModes == {"", "all", "production", "simulation"}

\* Round identifiers as the round listing sees them: two rounds of one
\* series, a round of another series, an identifier without a month token
\* and one that begins with a month token.
ListMarkets == {"", "btc-updown-february-19-2am-et",
                "btc-updown-february-19-3am-et",
                "eth-updown-march-1-2am-et",
                "btc-updown", "-february-19"}

\* What the trading process may append, per profile:
\*   "query"    Buy records of several markets and modes;
\*   "listing"  records of listed and unlisted kinds of several rounds;
\*   "stream"   records that differ in their identifier only;
\*   "errors"   the RoundStart and RoundEnd of a round, and Error records
\*              with and without data.market.
StoreRecords ==
    IF profile = "errors"
    THEN {[market |-> "btc-updown-february-19-2am-et",
           mode |-> "production", event |-> k] :
            k \in {"RoundStart", "RoundEnd", "Error"}}
         \cup {[market |-> "", mode |-> "production", event |-> "Error"]}
    ELSE IF profile = "listing"
    THEN {[market |-> mk, mode |-> "production", event |-> k] :
            mk \in ListMarkets, k \in {"Buy", "Error"}}
    ELSE IF profile \in {"stream", "client"}
    THEN {[market |-> "btc-updown-february-19-2am-et",
           mode |-> "production", event |-> "Buy"]}
    ELSE {[market |-> mk, mode |-> md, event |-> "Buy"] :
            mk \in StoreMarkets, md \in StoreModes}

StoreTimes == IF profile \in {"stream", "client"} THEN {1} ELSE 1..MaxTs

\* The payload of a stored record: data.market ("" when it has none) and,
\* for an Error record, message and context.
StoreData(r) ==
    IF r.event = "Error"
    THEN [market |-> r.market, message |-> "msg", context |-> "ctx"]
    ELSE [market |-> r.market]

\* The trading process appends a record; _id grows with the insertion
\* order, ts is the writer's clock.
StoreInsert ==
    /\ Len(store) < MaxStore
    /\ \E r \in StoreRecords, t \in StoreTimes :
         store' = Append(store, [_id |-> Len(store) + 1, ts |-> t,
                                 mode |-> r.mode, event |-> r.event,
                                 data |-> StoreData(r)])
    /\ UNCHANGED <<request, response, listing, stream, ui>>
    /\ UNCHANGED feedVars
    /\ UNCHANGED processVars

\* const mode = query.mode || 'all'  (l.12)
QueryMode(md) == IF md = "" THEN "all" ELSE md

\* Mutant: the mode filter is never set.
MatchesMarketOnly(rec, mk, md) == rec.data.market = mk

\* The filter of l.20-23 applied to one record.
Matches(rec, mk, md) ==
    /\ rec.data.market = mk
    /\ md # "all" => rec.mode = md

\* .sort({ ts: 1 }): every order of the matching records that is ascending
\* in ts; the order of records with equal ts is the store's choice.
SortedByTs(S) ==
    {s \in [1..Cardinality(S) -> S] :
       /\ \A i, j \in 1..Cardinality(S) : i # j => s[i] # s[j]
       /\ \A i, j \in 1..Cardinality(S) :
            i < j => store[s[i]].ts <= store[s[j]].ts}

\* The errors list of the summary processRoundEvents returns for a list of
\* records: the Error case (pairing.ts l.196-204) applied in input order.
ErrorsOf(es) ==
    LET f[i \in 0..Len(es)] ==
          IF i = 0 THEN <<>>
          ELSE IF es[i].event = "Error"
               THEN Append(f[i - 1], ErrorRecord(es[i]))
               ELSE f[i - 1]
    IN f[Len(es)]

\* Mutant: the market parameter is not checked.
RejectedNever(mk) == FALSE

\* if (!market) throw createError({ statusCode: 400, .. })  (l.14-16)
Rejected(mk) == mk = ""

\* GET /api/events?market=..&mode=..  The response records what the handler
\* did: whether it ran col.find (queried), whether it called
\* processRoundEvents (invoked) and the list it handed to it (events).
RoundQuery ==
    \E mk \in QueryMarkets, qmd \in QueryModes :
      LET md == QueryMode(qmd) IN
        /\ request' = [market |-> mk, mode |-> qmd]
        /\ IF Rejected(mk)
           THEN response' = [status |-> 400, queried |-> FALSE,
                             invoked |-> FALSE, events |-> <<>>,
                             errors |-> <<>>]
           ELSE \E s \in SortedByTs({i \in 1..Len(store) :
                                       Matches(store[i], mk, md)}) :
                  LET found == [i \in 1..Len(s) |-> store[s[i]]] IN
                    response' = [status |-> 200, queried |-> TRUE,
                                 invoked |-> TRUE, events |-> found,
                                 errors |-> ErrorsOf(found)]
        /\ UNCHANGED <<store, listing, stream, ui>>
        /\ UNCHANGED feedVars
        /\ UNCHANGED processVars

NextQuery ==
    \/ StoreInsert
    \/ RoundQuery

InitQuery == InitProfile("query")

\* The round query against a growing event store.
SpecQuery == InitQuery /\ [][NextQuery]_vars

InitErrors == InitProfile("errors")

\* The round query against a store that holds Error records.
SpecErrors == InitErrors /\ [][NextQuery]_vars

\* ------------------------------------- round listing (api/markets.get.ts)
\* A round identifier is text; the model keeps, for each identifier it
\* uses, the pieces between its dashes (slug.split('-')), so that a piece
\* of text is the sequence of its pieces and the empty text is <<"">>.
Pieces ==
    [mk \in ListMarkets |->
       CASE mk = "" -> <<"">>
         [] mk = "btc-updown-february-19-2am-et" ->
              <<"btc", "updown", "february", "19", "2am", "et">>
         [] mk = "btc-updown-february-19-3am-et" ->
              <<"btc", "updown", "february", "19", "3am", "et">>
         [] mk = "eth-updown-march-1-2am-et" ->
              <<"eth", "updown", "march", "1", "2am", "et">>
         [] mk = "btc-updown" -> <<"btc", "updown">>
         [] mk = "-february-19" -> <<"", "february", "19">>]

Months == {"january", "february", "march", "april", "may", "june", "july",
           "august", "september", "october", "november", "december"}

\* The kinds the $match stage lets through (l.17).
ListedKinds == {"Buy", "Merge", "RoundStart", "RoundEnd"}

\* $match of l.15-18; a missing or null data.market is "".
Listed(rec) == rec.data.market # "" /\ rec.event \in ListedKinds

\* Where /^(.+?)-(month)-/i can end its first group: a month piece with a
\* dash on both sides and at least one character of text before its dash.
PrefixEnds(t) ==
    {i \in 2..(Len(t) - 1) :
       /\ t[i] \in Months
       /\ ~(i = 2 /\ t[1] = "")}

\* prefixMatch ? prefixMatch[1] : slug  (l.41-42); the lazy group ends at
\* the first place it can.
PrefixOf(slug) ==
    LET t == Pieces[slug] IN
      IF PrefixEnds(t) = {} THEN t
      ELSE SubSeq(t, 1, (CHOOSE i \in PrefixEnds(t) :
                           \A j \in PrefixEnds(t) : i <= j) - 1)

\* $group of l.21-27 for one data.market.
RoundOf(mk) ==
    LET recs == {i \in 1..Len(store) :
                   Listed(store[i]) /\ store[i].data.market = mk}
    IN [slug |-> mk,
        latestTs |-> CHOOSE t \in {store[i].ts : i \in recs} :
                       \A i \in recs : store[i].ts <= t,
        earliestTs |-> CHOOSE t \in {store[i].ts : i \in recs} :
                         \A i \in recs : t <= store[i].ts,
        eventCount |-> Cardinality(recs),
        modes |-> {store[i].mode : i \in recs}]

\* The round identifiers the $group stage produces.
ListedMarkets == {store[i].data.market : i \in {j \in 1..Len(store) :
                                                   Listed(store[j])}}

\* $sort: { latestTs: -1 }: every order of the rounds that is descending in
\* latestTs.
SortedByLatest(R) ==
    {s \in [1..Cardinality(R) -> R] :
       /\ \A i, j \in 1..Cardinality(R) : i # j => s[i] # s[j]
       /\ \A i, j \in 1..Cardinality(R) :
            i < j => s[i].latestTs >= s[j].latestTs}

\* The rounds pushed to groups[prefix], in the order of the loop (l.38-52).
GroupOf(rounds, key) ==
    LET f[i \in 0..Len(rounds)] ==
          IF i = 0 THEN <<>>
          ELSE IF PrefixOf(rounds[i].slug) = key
               THEN Append(f[i - 1], rounds[i])
               ELSE f[i - 1]
    IN f[Len(rounds)]

\* Mutant: the comparator is a.latestTs - b.latestTs.
SortGroupAscending(g) ==
    LET before(i, j) == \/ g[i].latestTs < g[j].latestTs
                        \/ g[i].latestTs = g[j].latestTs /\ i < j
        p == CHOOSE q \in [1..Len(g) -> 1..Len(g)] :
               /\ \A i, j \in 1..Len(g) : i # j => q[i] # q[j]
               /\ \A i, j \in 1..Len(g) : i < j => before(q[i], q[j])
    IN [i \in 1..Len(g) |-> g[p[i]]]

\* groups[prefix].sort((a, b) => b.latestTs - a.latestTs)  (l.55-59);
\* Array.prototype.sort is stable.
SortGroup(g) ==
    LET before(i, j) == \/ g[i].latestTs > g[j].latestTs
                        \/ g[i].latestTs = g[j].latestTs /\ i < j
        p == CHOOSE q \in [1..Len(g) -> 1..Len(g)] :
               /\ \A i, j \in 1..Len(g) : i # j => q[i] # q[j]
               /\ \A i, j \in 1..Len(g) : i < j => before(q[i], q[j])
    IN [i \in 1..Len(g) |-> g[p[i]]]

\* GET /api/markets
MarketsQuery ==
    /\ \E rounds \in SortedByLatest({RoundOf(mk) : mk \in ListedMarkets}) :
         LET keys == {PrefixOf(rounds[i].slug) : i \in 1..Len(rounds)} IN
           listing' = [status |-> 200,
                       groups |-> [k \in keys |->
                                     SortGroup(GroupOf(rounds, k))]]
    /\ UNCHANGED <<store, request, response, stream, ui>>
    /\ UNCHANGED feedVars
    /\ UNCHANGED processVars

NextListing ==
    \/ StoreInsert
    \/ MarketsQuery

InitListing == InitProfile("listing")

\* The round listing against a growing event store.
SpecListing == InitListing /\ [][NextListing]_vars

\* ------------------------- live stream (GET /api/stream, pairing.ts l.245)
\* One connection.  stream.start is the lastId parameter of the request,
\* stream.existing the number of records stored when it was opened,
\* stream.lastId the cursor variable of the handler, stream.polls the polls
\* whose find has not yet been answered to the callback, and
\* stream.delivered the identifiers sent as 'event' messages, in order,
\* and stream.messages every message sent (sendSSE), in order.
\*
\* A cursor is none (parameter left out or empty), an identifier, or text
\* that new ObjectId() rejects.  Identifier 0 is older than every record.
Cursors ==
    {[kind |-> "none", id |-> 0], [kind |-> "invalid", id |-> 0]}
      \cup {[kind |-> "id", id |-> i] : i \in 0..MaxStore}

\* The lastId a request carries.  The page's client opens '/api/stream'
\* with no parameter (useEventStream l.23).
RequestCursors ==
    IF profile = "client" THEN {[kind |-> "none", id |-> 0]} ELSE Cursors

\* Mutant: the stream starts at the beginning of the store.
TailCursorNone(cur) == cur

\* l.259-264: without lastId the cursor is the latest stored identifier,
\* when there is one.
TailCursor(cur) ==
    IF cur.kind = "none" /\ store # <<>>
    THEN [kind |-> "id", id |-> store[Len(store)]._id]
    ELSE cur

\* sendSSE(eventName, data) (l.268-270): a message is its event name and,
\* for an 'event' message, the identifier of the record it carries.
Message(eventName, id) == [kind |-> eventName, id |-> id]

\* The handler up to setInterval (l.245-276).
Connect ==
    /\ stream.phase = "idle"
    /\ \E cur \in RequestCursors :
         stream' = [stream EXCEPT !.phase = "open", !.start = cur,
                                  !.existing = Len(store),
                                  !.lastId = TailCursor(cur),
                                  !.messages = <<Message("connected", 0)>>]
    /\ UNCHANGED <<store, request, response, listing, ui>>
    /\ UNCHANGED feedVars
    /\ UNCHANGED processVars

\* l.278-285: the filter of a poll; an invalid cursor leaves it empty.
FilterOf(cur) ==
    IF cur.kind = "id" THEN [gt |-> TRUE, id |-> cur.id]
    ELSE [gt |-> FALSE, id |-> 0]

\* Mutant: the filter is $gte.
InFilterInclusive(filter, rec) == filter.gt => rec._id >= filter.id

\* A record passes the filter.
InFilter(filter, rec) == filter.gt => rec._id > filter.id

\* find(filter).sort({ _id: 1 }).limit(100).toArray()  (l.287-291)
FindPage(filter) ==
    LET found == SelectSeq(store, LAMBDA rec : InFilter(filter, rec))
    IN SubSeq(found, 1, Min(Len(found), Limit))

\* A timer tick: the callback builds its filter from lastId and sends the
\* find; setInterval does not wait for the callback of the tick before.
PollStart ==
    /\ stream.phase = "open"
    /\ stream.started < MaxPolls
    /\ Len(stream.polls) < MaxInFlight
    /\ stream' = [stream EXCEPT
                    !.started = @ + 1,
                    !.polls = Append(@, [filter |-> FilterOf(stream.lastId),
                                         phase |-> "sent", docs |-> <<>>])]
    /\ UNCHANGED <<store, request, response, listing, ui>>
    /\ UNCHANGED feedVars
    /\ UNCHANGED processVars

\* The store evaluates the find of a poll.
PollFind ==
    /\ \E k \in 1..Len(stream.polls) :
         /\ stream.polls[k].phase = "sent"
         /\ stream' = [stream EXCEPT
                         !.polls[k].phase = "found",
                         !.polls[k].docs = FindPage(stream.polls[k].filter)]
    /\ UNCHANGED <<store, request, response, listing, ui>>
    /\ UNCHANGED feedVars
    /\ UNCHANGED processVars

Without(polls, k) == SubSeq(polls, 1, k - 1) \o SubSeq(polls, k + 1, Len(polls))

Ids(docs) == [i \in 1..Len(docs) |-> docs[i]._id]

\* Mutant: the heartbeat is sent before the records.
PollMessagesHeartbeatFirst(docs) ==
    <<Message("heartbeat", 0)>>
      \o [i \in 1..Len(docs) |-> Message("event", docs[i]._id)]

\* What a poll that found docs sends (l.293-308): one 'event' message for
\* each document, in order, then the heartbeat.
PollMessages(docs) ==
    [i \in 1..Len(docs) |-> Message("event", docs[i]._id)]
      \o <<Message("heartbeat", 0)>>

\* The callback resumes with the documents (l.293-308): it moves the
\* cursor to the last of them, sends each and then the heartbeat.
PollFinish ==
    /\ stream.phase = "open"
    /\ \E k \in 1..Len(stream.polls) :
         LET docs == stream.polls[k].docs IN
           /\ stream.polls[k].phase = "found"
           /\ stream' = [stream EXCEPT
                           !.polls = Without(@, k),
                           !.lastId = IF docs = <<>> THEN @
                                      ELSE [kind |-> "id",
                                            id |-> docs[Len(docs)]._id],
                           !.delivered = @ \o Ids(docs),
                           !.messages = @ \o PollMessages(docs)]
    /\ UNCHANGED <<store, request, response, listing, ui>>
    /\ UNCHANGED feedVars
    /\ UNCHANGED processVars

\* The find of a poll fails: the callback sends an 'error' message and
\* leaves the cursor alone (l.309-311).
PollFail ==
    /\ stream.phase = "open"
    /\ \E k \in 1..Len(stream.polls) :
         /\ stream.polls[k].phase = "sent"
         /\ stream' = [stream EXCEPT
                         !.polls = Without(@, k),
                         !.messages = Append(@, Message("error", 0))]
    /\ UNCHANGED <<store, request, response, listing, ui>>
    /\ UNCHANGED feedVars
    /\ UNCHANGED processVars

\* The client goes away (l.315-317): the timer is cleared and nothing more
\* reaches the client.
Close ==
    /\ stream.phase = "open"
    /\ stream' = [stream EXCEPT !.phase = "closed", !.polls = <<>>]
    /\ UNCHANGED <<store, request, response, listing, ui>>
    /\ UNCHANGED feedVars
    /\ UNCHANGED processVars

NextStream ==
    \/ StoreInsert
    \/ Connect
    \/ PollStart
    \/ PollFind
    \/ PollFinish
    \/ PollFail
    \/ Close

InitStream == InitProfile("stream")

\* One stream connection against a growing event store.
SpecStream == InitStream /\ [][NextStream]_vars

\* --------------------------------------------- the page (pages/index.vue)
\* ui.selectedMarket, ui.autoTrack and ui.modeFilter are the refs of the
\* page (null is ""), ui.lastEvent the last notification, ui.callbacks the
\* onEvent callbacks that wait for fetchMarkets, ui.timers the markets of
\* the armed setTimeouts, ui.marketFetches the number of GET /api/markets
\* sent and ui.roundFetches the GET /api/events sent, in order.
\* ui.pending holds the GET /api/events not yet answered, ui.roundData the
\* round and mode of the summary shown (roundData of useRoundEvents, null
\* is market "") and ui.roundError tells that its error ref is set.
UiMarkets == {"btc-updown-february-19-2am-et", "eth-updown-february-19-2am-et"}
UiModes == {"all", "production"}

\* The notifications: a kind and data.market ("" when there is none).
Notifications ==
    {[event |-> k, market |-> mk] :
       k \in {"RoundStart", "RoundEnd", "Buy"}, mk \in UiMarkets \cup {""}}

\* fetchRound(market, mode): one GET /api/events.
\* (useRoundEvents, nuxt.config.ts l.55-61: error is reset and the request
\* is sent.)  The log of requests is kept where the answers are not
\* followed.
FetchRound(u, mk) ==
    [u EXCEPT !.roundFetches =
                 IF profile = "display" THEN @
                 ELSE Append(@, [market |-> mk, mode |-> u.modeFilter]),
              !.pending = Append(@, [market |-> mk, mode |-> u.modeFilter]),
              !.roundError = FALSE]

\* onMounted (l.15-27): the listing is fetched and its first round, when
\* there is one, is selected and fetched.
Mount ==
    /\ ui.phase = "setup"
    /\ \E mk \in UiMarkets \cup {""} :
         LET u == [ui EXCEPT !.phase = "mounted", !.marketFetches = @ + 1,
                             !.selectedMarket = mk]
         IN ui' = IF mk = "" THEN u ELSE FetchRound(u, mk)
    /\ UNCHANGED <<store, request, response, listing, stream>>
    /\ UNCHANGED feedVars
    /\ UNCHANGED processVars

\* onSelectMarket (l.30-35)
SelectMarket ==
    /\ ui.phase = "mounted"
    /\ ui.steps < MaxUiSteps
    /\ \E mk \in UiMarkets :
         ui' = FetchRound([ui EXCEPT !.steps = @ + 1, !.selectedMarket = mk,
                                     !.autoTrack = FALSE], mk)
    /\ UNCHANGED <<store, request, response, listing, stream>>
    /\ UNCHANGED feedVars
    /\ UNCHANGED processVars

\* @update:auto-track (l.119)
SetAutoTrack ==
    /\ ui.phase = "mounted"
    /\ ui.steps < MaxUiSteps
    /\ ui' = [ui EXCEPT !.steps = @ + 1, !.autoTrack = ~@]
    /\ UNCHANGED <<store, request, response, listing, stream>>
    /\ UNCHANGED feedVars
    /\ UNCHANGED processVars

\* @update:mode-filter and the watch on modeFilter (l.38-42, l.120)
SetModeFilter ==
    /\ ui.phase = "mounted"
    /\ ui.steps < MaxUiSteps
    /\ \E md \in UiModes \ {ui.modeFilter} :
         LET u == [ui EXCEPT !.steps = @ + 1, !.modeFilter = md] IN
           ui' = IF u.selectedMarket # "" THEN FetchRound(u, u.selectedMarket)
                 ELSE u
    /\ UNCHANGED <<store, request, response, listing, stream>>
    /\ UNCHANGED feedVars
    /\ UNCHANGED processVars

\* The 30 s refresh of the listing (l.80-83).
RefreshTick ==
    /\ ui.phase = "mounted"
    /\ ui.steps < MaxUiSteps
    /\ ui' = [ui EXCEPT !.steps = @ + 1, !.marketFetches = @ + 1]
    /\ UNCHANGED <<store, request, response, listing, stream>>
    /\ UNCHANGED feedVars
    /\ UNCHANGED processVars

\* Mutant: only RoundStart re-queries the listing.
RequeriesListingOnStart(evt) == evt.event = "RoundStart"

\* evt.event === 'RoundStart' || evt.event === 'RoundEnd'  (l.57)
RequeriesListing(evt) == evt.event \in {"RoundStart", "RoundEnd"}

\* Mutant: the auto-track branch returns without arming the timer.
AfterFetchMarketsNoTimer(u, evt) ==
    IF u.autoTrack /\ evt.event = "RoundStart" /\ evt.market # ""
    THEN [u EXCEPT !.selectedMarket = evt.market]
    ELSE IF evt.market # "" /\ evt.market = u.selectedMarket
    THEN FetchRound(u, u.selectedMarket)
    ELSE u

\* The callback from l.62 on: auto-track switches to the market of a
\* RoundStart and arms a timer that fetches it; otherwise a notification
\* of the selected market fetches it.
AfterFetchMarkets(u, evt) ==
    IF u.autoTrack /\ evt.event = "RoundStart" /\ evt.market # ""
    THEN [u EXCEPT !.selectedMarket = evt.market,
                   !.timers = Append(@, evt.market)]
    ELSE IF evt.market # "" /\ evt.market = u.selectedMarket
    THEN FetchRound(u, u.selectedMarket)
    ELSE u

\* An 'event' message arrives (useEventStream l.29-35) and the onEvent
\* callback runs up to its first await (l.53-59).
Notify ==
    /\ ui.phase = "mounted"
    /\ ui.notified < MaxNotifications
    /\ \E evt \in Notifications :
         LET u == [ui EXCEPT !.notified = @ + 1, !.lastEvent = evt] IN
           ui' = IF RequeriesListing(evt)
                 THEN [u EXCEPT !.marketFetches = @ + 1,
                                !.callbacks = Append(@, evt)]
                 ELSE AfterFetchMarkets(u, evt)
    /\ UNCHANGED <<store, request, response, listing, stream>>
    /\ UNCHANGED feedVars
    /\ UNCHANGED processVars

\* fetchMarkets returns to a waiting callback, which runs to its end.
MarketsFetched ==
    /\ \E k \in 1..Len(ui.callbacks) :
         ui' = AfterFetchMarkets([ui EXCEPT !.callbacks = Without(@, k)],
                                 ui.callbacks[k])
    /\ UNCHANGED <<store, request, response, listing, stream>>
    /\ UNCHANGED feedVars
    /\ UNCHANGED processVars

\* A timer armed by the auto-track branch fires (l.66-68).
TimerFires ==
    /\ \E k \in 1..Len(ui.timers) :
         ui' = FetchRound([ui EXCEPT !.timers = Without(@, k)], ui.timers[k])
    /\ UNCHANGED <<store, request, response, listing, stream>>
    /\ UNCHANGED feedVars
    /\ UNCHANGED processVars

NextUi ==
    \/ Mount
    \/ SelectMarket
    \/ SetAutoTrack
    \/ SetModeFilter
    \/ RefreshTick
    \/ Notify
    \/ MarketsFetched
    \/ TimerFires

InitUi == InitProfile("ui")

\* A GET /api/events is answered and fetchRound resumes (nuxt.config.ts
\* l.59-67): the summary replaces roundData, or the failure sets error.
\* The answers arrive in any order.
RoundFetched ==
    /\ \E k \in 1..Len(ui.pending), ok \in BOOLEAN :
         LET u == [ui EXCEPT !.pending = Without(@, k)] IN
           ui' = IF ok THEN [u EXCEPT !.roundData = ui.pending[k]]
                 ELSE [u EXCEPT !.roundError = TRUE]
    /\ UNCHANGED <<store, request, response, listing, stream>>
    /\ UNCHANGED feedVars
    /\ UNCHANGED processVars

NextDisplay ==
    \/ Mount
    \/ SelectMarket
    \/ SetAutoTrack
    \/ SetModeFilter
    \/ RefreshTick
    \/ Notify
    \/ MarketsFetched
    \/ TimerFires
    \/ RoundFetched

InitDisplay == InitProfile("display")

\* The page under notifications and user input, with the answers to its
\* round queries.
SpecDisplay == InitDisplay /\ [][NextDisplay]_vars

\* The page under notifications and user input.
SpecUi == InitUi /\ [][NextUi]_vars

\* ------------------------------------- the stream client (useEventStream)
\* client.phase tells what the caller did last: nothing ("setup"), the
\* connect() of onMounted ("connected"), disconnect() ("disconnected"), a
\* connect() after a disconnect() ("reconnected"), or the unmount of the
\* component ("unmounted").  client.eventSource is the variable of
\* the composable ("null" or "open" for an object), client.failed tells
\* that the connection of the object broke, client.connected is the ref,
\* client.timers the number of armed reconnect timers, client.opened the
\* number of requests the client has sent to /api/stream, client.read the
\* number of messages of the connection dispatched to the listeners,
\* client.passed the identifiers passed to the callbacks, and client.base
\* the number of records stored when the first connection was established
\* (-1 before).  stream is the server's side of the connection of the
\* object held.

\* new EventSource('/api/stream') (l.23): a request is on its way.
OpenSource(c) ==
    [c EXCEPT !.eventSource = "open", !.failed = FALSE, !.read = 0,
              !.opened = @ + 1]

\* connect() (l.20-49)
ConnectOf(c) == IF c.eventSource # "null" THEN c ELSE OpenSource(c)

\* disconnect() (l.51-57)
DisconnectOf(c) == [c EXCEPT !.eventSource = "null", !.connected = FALSE]

\* The server's side after the client's calls: close() ends the
\* connection held (the close handler of pairing.ts l.315-317), and a new
\* EventSource starts a request.
StreamAfter(before, after) ==
    IF after.opened > before.opened THEN IdleStream
    ELSE IF after.eventSource = "null" /\ before.eventSource # "null"
    THEN [stream EXCEPT !.phase = "closed", !.polls = <<>>]
    ELSE stream

\* The caller calls connect(): onMounted of the page (index.vue l.26), or
\* any later call after a disconnect().
ClientConnect ==
    /\ client.phase \in {"setup", "disconnected"}
    /\ client.opened < MaxConnections
    /\ LET to == IF client.phase = "setup" THEN "connected"
                 ELSE "reconnected"
           c == ConnectOf([client EXCEPT !.phase = to]) IN
         /\ client' = c
         /\ stream' = StreamAfter(client, c)
    /\ UNCHANGED <<store, request, response, listing, ui, feed, cache>>
    /\ UNCHANGED processVars

\* The caller calls disconnect(), or the component is unmounted (l.59-61).
ClientDisconnect ==
    /\ client.phase \in {"connected", "reconnected"}
    /\ \E to \in {"disconnected", "unmounted"} :
         LET c == DisconnectOf([client EXCEPT !.phase = to]) IN
           /\ client' = c
           /\ stream' = StreamAfter(client, c)
    /\ UNCHANGED <<store, request, response, listing, ui, feed, cache>>
    /\ UNCHANGED processVars

\* The 'error' listener (l.41-48)
OnError(c) == [c EXCEPT !.connected = FALSE, !.timers = @ + 1]

\* The object dispatches the next message of its connection to the
\* listeners (l.25-48); the 'event' listener passes the record to the
\* callbacks.
Receive ==
    /\ client.eventSource = "open"
    /\ ~client.failed
    /\ client.read < Len(stream.messages)
    /\ LET msg == stream.messages[client.read + 1]
           c == [client EXCEPT !.read = @ + 1] IN
         /\ msg.kind = "error" => client.timers < MaxTimers
         /\ client' =
              CASE msg.kind = "connected" ->
                     [c EXCEPT !.connected = TRUE,
                               !.base = IF @ = -1 THEN stream.existing ELSE @]
                [] msg.kind = "event" ->
                     [c EXCEPT !.passed = Append(@, msg.id)]
                [] msg.kind = "heartbeat" -> [c EXCEPT !.connected = TRUE]
                [] OTHER -> OnError(c)
    /\ UNCHANGED <<store, request, response, listing, stream, ui, feed,
                   cache>>
    /\ UNCHANGED processVars

\* The connection of the object breaks: the server sees the close
\* (pairing.ts l.315-317) and the object fires 'error' (l.41-48).
NetworkError ==
    /\ client.eventSource = "open"
    /\ ~client.failed
    /\ client.timers < MaxTimers
    /\ client' = OnError([client EXCEPT !.failed = TRUE])
    /\ stream' = [stream EXCEPT !.phase = "closed", !.polls = <<>>]
    /\ UNCHANGED <<store, request, response, listing, ui, feed, cache>>
    /\ UNCHANGED processVars

\* An EventSource whose connection broke requests its URL again (l.23).
BrowserReconnect ==
    /\ client.eventSource = "open"
    /\ client.failed
    /\ client.opened < MaxConnections
    /\ client' = [client EXCEPT !.failed = FALSE, !.read = 0,
                                !.opened = @ + 1]
    /\ stream' = IdleStream
    /\ UNCHANGED <<store, request, response, listing, ui, feed, cache>>
    /\ UNCHANGED processVars

\* A reconnect timer fires (l.44-47): disconnect(), then connect().
ReconnectTimer ==
    /\ client.timers > 0
    /\ client.opened < MaxConnections
    /\ LET c == ConnectOf(DisconnectOf([client EXCEPT !.timers = @ - 1])) IN
         /\ client' = c
         /\ stream' = StreamAfter(client, c)
    /\ UNCHANGED <<store, request, response, listing, ui, feed, cache>>
    /\ UNCHANGED processVars

NextClient ==
    \/ StoreInsert
    \/ Connect
    \/ PollStart
    \/ PollFind
    \/ PollFinish
    \/ PollFail
    \/ ClientConnect
    \/ ClientDisconnect
    \/ Receive
    \/ NetworkError
    \/ BrowserReconnect
    \/ ReconnectTimer

InitClient == InitProfile("client")

\* The page's stream client against the stream handler and a growing
\* event store.
SpecClient == InitClient /\ [][NextClient]_vars

\* --------------------------------- the live feed (composables/useLiveFeed)
\* feed.connected, feed.cryptoPrice, feed.latestCryptoPrice and
\* feed.cryptoSymbol are the refs (null is NullPrice or ""), feed.binanceWs
\* the socket held (0 is null, n the n-th socket created), feed.currentSlug
\* the variable of that name (null is ""), feed.sockets the WebSockets
\* created with their symbol and ready state, feed.starts the slugs of the
\* start() calls that wait for /api/market-info, feed.started the number
\* of start() calls, feed.requested the slug of the last start() call (""
\* after a stop() of the caller) and feed.heard the trade messages received
\* since the last clearData().
FeedSlugs ==
    {"bitcoin-up-or-down-february-19-2am-et",
     "ethereum-up-or-down-february-19-2am-et",
     "btc-updown-february-19-2am-et"}

\* detectCryptoSymbol (part_000 l.43-49) on the slugs above: the symbol of
\* the keyword the slug starts with, null ("") when it starts with none.
DetectCryptoSymbol(slug) ==
    CASE slug = "bitcoin-up-or-down-february-19-2am-et" -> "btcusdt"
      [] slug = "ethereum-up-or-down-february-19-2am-et" -> "ethusdt"
      [] OTHER -> ""

\* symbol.toUpperCase() (l.57)
ToUpperCase(symbol) ==
    CASE symbol = "btcusdt" -> "BTCUSDT"
      [] symbol = "ethusdt" -> "ETHUSDT"
      [] OTHER -> symbol

\* The trade messages: text that JSON.parse rejects, or an object whose p
\* is a decimal number, text that begins with one, other text, or missing
\* (""), and whose T is a time or missing (0).
FeedMessages ==
    {[parses |-> FALSE, p |-> "", T |-> 0],
     [parses |-> TRUE, p |-> "7", T |-> 0],
     [parses |-> TRUE, p |-> "8", T |-> 5],
     [parses |-> TRUE, p |-> "9abc", T |-> 5],
     [parses |-> TRUE, p |-> "abc", T |-> 5],
     [parses |-> TRUE, p |-> "", T |-> 5]}

\* The messages explored: every kind where the series is followed, one
\* where the sockets are.
MessagesHeard == IF profile = "prices" THEN FeedMessages
                 ELSE {[parses |-> TRUE, p |-> "7", T |-> 0]}

\* parseFloat: the number the text begins with, NaN when it begins with
\* none.
ParseFloat(text) ==
    CASE text = "7" -> 7
      [] text = "8" -> 8
      [] text = "9abc" -> 9
      [] OTHER -> NaN

\* arr.slice(-k): the last k elements, and the whole array for k = 0.
SliceLast(arr, k) ==
    IF k = 0 \/ k >= Len(arr) THEN arr
    ELSE SubSeq(arr, Len(arr) - k + 1, Len(arr))

\* Mutant: the series keeps MAX_POINTS points before the new one.
PushPointKeepingAll(arr, point) == Append(SliceLast(arr, MAX_POINTS), point)

\* pushPoint (l.50-52)
PushPoint(arr, point) == Append(SliceLast(arr, MAX_POINTS - 1), point)

\* clearData (l.45-48)
ClearData(f) ==
    [f EXCEPT !.cryptoPrice = <<>>, !.latestCryptoPrice = NullPrice,
              !.heard = <<>>]

\* closeBinance (l.89-95): close() on a socket that is connecting or open
\* starts its closing.
CloseBinance(f) ==
    IF f.binanceWs = 0 THEN [f EXCEPT !.connected = FALSE]
    ELSE [f EXCEPT !.sockets[f.binanceWs].state =
                      IF @ \in {"connecting", "open"} THEN "closing" ELSE @,
                   !.binanceWs = 0,
                   !.connected = FALSE]

\* connectBinance (l.55-87) up to the registration of the handlers.
ConnectBinance(f, symbol) ==
    LET g == CloseBinance(f) IN
      [g EXCEPT !.cryptoSymbol = ToUpperCase(symbol),
                !.sockets = Append(@, [symbol |-> symbol,
                                       state |-> "connecting"]),
                !.binanceWs = Len(g.sockets) + 1]

\* stop (l.119-122)
StopOf(f) == [CloseBinance(f) EXCEPT !.currentSlug = ""]

\* start(slug) up to its await (l.98-106), called by the watch of the page
\* (index.vue l.45-51).
Start ==
    /\ feed.started < MaxStarts
    /\ \E slug \in FeedSlugs :
         LET f == [feed EXCEPT !.started = @ + 1, !.requested = slug] IN
           feed' = IF f.currentSlug = slug /\ f.connected THEN f
                   ELSE [ClearData(StopOf(f)) EXCEPT
                           !.currentSlug = slug,
                           !.starts = Append(@, slug)]
    /\ UNCHANGED <<store, request, response, listing, stream, ui, client,
                   cache>>
    /\ UNCHANGED processVars

\* /api/market-info answers a waiting start(), which runs to its end
\* (l.106-116): with the info of the slug it connects when the info names
\* a symbol; a failure is logged.
StartAnswered ==
    /\ \E k \in 1..Len(feed.starts), ok \in BOOLEAN :
         LET f == [feed EXCEPT !.starts = Without(@, k)]
             symbol == DetectCryptoSymbol(feed.starts[k]) IN
           IF ok /\ symbol # ""
           THEN /\ Len(feed.sockets) < MaxSockets
                /\ feed' = ConnectBinance(f, symbol)
           ELSE feed' = f
    /\ UNCHANGED <<store, request, response, listing, stream, ui, client,
                   cache>>
    /\ UNCHANGED processVars

\* stop() called by the watch of the page (index.vue l.48-50) or by the
\* unmount (l.129-131).
Stop ==
    /\ feed.requested # ""
    /\ feed' = [StopOf(feed) EXCEPT !.requested = ""]
    /\ UNCHANGED <<store, request, response, listing, stream, ui, client,
                   cache>>
    /\ UNCHANGED processVars

\* A socket opens: its onopen runs (l.62-65).
SocketOpens ==
    /\ \E n \in 1..Len(feed.sockets) :
         /\ feed.sockets[n].state = "connecting"
         /\ feed' = [feed EXCEPT !.sockets[n].state = "open",
                                 !.connected = TRUE]
    /\ UNCHANGED <<store, request, response, listing, stream, ui, client,
                   cache>>
    /\ UNCHANGED processVars

\* A socket closes, after close() or from the other end: its onclose runs
\* (l.83-86).
SocketCloses ==
    /\ \E n \in 1..Len(feed.sockets) :
         /\ feed.sockets[n].state # "closed"
         /\ feed' = [feed EXCEPT !.sockets[n].state = "closed",
                                 !.connected = FALSE]
    /\ UNCHANGED <<store, request, response, listing, stream, ui, client,
                   cache>>
    /\ UNCHANGED processVars

\* The point of a trade message: { x: data.T || Date.now(), y: price }
PointOf(msg) ==
    [x |-> IF msg.T # 0 THEN msg.T ELSE FeedNow, y |-> ParseFloat(msg.p)]

\* onmessage (l.67-77): a message JSON.parse rejects and one whose price
\* is NaN are ignored.
OnMessage(f, msg) ==
    IF msg.parses /\ IsNum(ParseFloat(msg.p))
    THEN [f EXCEPT !.cryptoPrice = PushPoint(@, PointOf(msg)),
                   !.latestCryptoPrice = ParseFloat(msg.p)]
    ELSE f

\* An open socket receives a trade message.
SocketMessage ==
    /\ Len(feed.heard) < MaxMessages
    /\ \E n \in 1..Len(feed.sockets), msg \in MessagesHeard :
         /\ feed.sockets[n].state = "open"
         /\ feed' = OnMessage([feed EXCEPT !.heard = Append(@, msg)], msg)
    /\ UNCHANGED <<store, request, response, listing, stream, ui, client,
                   cache>>
    /\ UNCHANGED processVars

NextFeed ==
    \/ Start
    \/ StartAnswered
    \/ Stop
    \/ SocketOpens
    \/ SocketCloses
    \/ SocketMessage

InitFeed == InitProfile("feed")

\* The live feed under start() and stop() of the page and the events of
\* its sockets.
SpecFeed == InitFeed /\ [][NextFeed]_vars

InitPrices == InitProfile("prices")

\* The live feed of one round under every kind of trade message.
SpecPrices == InitPrices /\ [][NextFeed]_vars

\* ------------------------------ market info (GET /api/market-info, part_000)
\* cache.now is Date.now(), cache.entries the CACHE map, cache.resolving
\* the requests that wait for an external answer with the call they wait
\* for, cache.requests the number of requests received, cache.calls the
\* number of external calls sent, cache.resolved the number of successful
\* resolutions, cache.hits the number of requests answered from the
\* cache, and cache.response the last answer given (status and, for 200,
\* the data).

\* Mutant: an entry is still served at its expiry time.
FreshAtExpiry(entry, now) == entry.present /\ entry.expiresAt >= now

\* cached && cached.expiresAt > Date.now()  (l.61)
Fresh(entry, now) == entry.present /\ entry.expiresAt > now

\* Time passes.
Tick ==
    /\ cache.now < MaxClock
    /\ cache' = [cache EXCEPT !.now = @ + 1]
    /\ UNCHANGED <<store, request, response, listing, stream, ui, client,
                   feed>>
    /\ UNCHANGED processVars

\* The handler up to its first await (l.51-69): 400 without slug, the
\* cached data while the entry is fresh, else the Gamma call is sent.
InfoRequest ==
    /\ cache.requests < MaxInfoRequests
    /\ \E slug \in CacheSlugs \cup {""} :
         LET c == [cache EXCEPT !.requests = @ + 1] IN
           cache' =
             IF slug = ""
             THEN [c EXCEPT !.response =
                              [slug |-> slug, status |-> 400, data |-> 0]]
             ELSE IF Fresh(c.entries[slug], c.now)
             THEN [c EXCEPT !.hits = @ + 1,
                            !.response =
                              [slug |-> slug, status |-> 200,
                               data |-> c.entries[slug].data]]
             ELSE [c EXCEPT !.calls = @ + 1,
                            !.resolving =
                              Append(@, [slug |-> slug, call |-> "gamma"])]
    /\ UNCHANGED <<store, request, response, listing, stream, ui, client,
                   feed>>
    /\ UNCHANGED processVars

\* The answers of the Gamma call with the status the handler gives them
\* (l.71-86, l.109-115); 200 stands for an event with a market that has a
\* conditionId.
GammaAnswers == {200, 404, 500, 502}

\* The Gamma call is answered (l.67-89): the handler sends the CLOB call
\* or throws.
GammaAnswered ==
    /\ \E k \in 1..Len(cache.resolving), status \in GammaAnswers :
         /\ cache.resolving[k].call = "gamma"
         /\ cache' =
              IF status = 200
              THEN [cache EXCEPT !.calls = @ + 1,
                                 !.resolving[k].call = "clob"]
              ELSE [cache EXCEPT
                      !.resolving = Without(@, k),
                      !.response = [slug |-> cache.resolving[k].slug,
                                    status |-> status, data |-> 0]]
    /\ UNCHANGED <<store, request, response, listing, stream, ui, client,
                   feed>>
    /\ UNCHANGED processVars

\* The CLOB call is answered (l.89-115): the result is cached and
\* returned, or the failure becomes a 502.
ClobAnswered ==
    /\ \E k \in 1..Len(cache.resolving), ok \in BOOLEAN :
         LET slug == cache.resolving[k].slug
             c == [cache EXCEPT !.resolving = Without(@, k)] IN
           /\ cache.resolving[k].call = "clob"
           /\ cache' =
                IF ok
                THEN [c EXCEPT
                        !.resolved = @ + 1,
                        !.entries[slug] =
                           [present |-> TRUE, data |-> c.resolved + 1,
                            expiresAt |-> c.now + CACHE_TTL_MS,
                            setAt |-> c.now],
                        !.response = [slug |-> slug, status |-> 200,
                                      data |-> c.resolved + 1]]
                ELSE [c EXCEPT !.response = [slug |-> slug, status |-> 502,
                                             data |-> 0]]
    /\ UNCHANGED <<store, request, response, listing, stream, ui, client,
                   feed>>
    /\ UNCHANGED processVars

NextCache ==
    \/ Tick
    \/ InfoRequest
    \/ GammaAnswered
    \/ ClobAnswered

InitCache == InitProfile("cache")

\* The market-info handler under requests, answers of the external
\* services and the passing of time.
SpecCache == InitCache /\ [][NextCache]_vars

\* ------------------------------------------------------ derived quantities
\* A buy is queued on the YES queue when its side is exactly "YES".
OnYes(b) == b.side = "YES"

\* Sum of size over the buys of one side.
SizeSum(bs, yes) ==
    LET f[i \in 0..Len(bs)] ==
          IF i = 0 THEN 0
          ELSE f[i - 1] + (IF OnYes(bs[i]) = yes THEN bs[i].size ELSE 0)
    IN f[Len(bs)]

\* Sum of consumedSize over the buys of one side.
ConsumedSum(bs, yes) ==
    LET f[i \in 0..Len(bs)] ==
          IF i = 0 THEN 0
          ELSE f[i - 1] + (IF OnYes(bs[i]) = yes THEN bs[i].consumedSize ELSE 0)
    IN f[Len(bs)]

\* Number of buys of one side reported merged.
MergedCount(bs, yes) ==
    Cardinality({i \in 1..Len(bs) : OnYes(bs[i]) = yes /\ bs[i].merged})

Abs(x) == IF x < 0 THEN -x ELSE x

IsMerge(e) == e.event = "Merge"
IsBuy(e) == e.event = "Buy"

\* The Merge events of the input consumed so far, in input order.
MergeEvents == SelectSeq(events, IsMerge)

\* The step just taken processed an event of this kind.
Processed(kind) ==
    /\ Len(events') = Len(events) + 1
    /\ events'[Len(events')].event = kind

\* Buys referenced by the entries of a queue.
Queued(queue) == {queue[i].buyRef : i \in 1..Len(queue)}

\* ------------------------------------------------------------------ C1
\* Conservation gap of one side in the returned summary.
Gap(yes) ==
    SizeSum(summary.buys, yes)
      - ConsumedSum(summary.buys, yes)
      - (IF yes THEN summary.unmergedYes ELSE summary.unmergedNo)

\* C1 (as claimed): in the returned summary, for each side the sum of size
\* equals the sum of consumedSize plus the side's unmerged total, within the
\* tolerance 0.001.
C1_ConservationWithinEps ==
    pc = "done" => \A yes \in BOOLEAN : Abs(Gap(yes)) <= Eps

\* C1 (amended): in the returned summary, for each side the sum of size is
\* never below the sum of consumedSize plus the unmerged total, and exceeds
\* it by less than 0.001 for every buy of that side reported merged.
C1_ConservationPerMergedBuy ==
    pc = "done" =>
      \A yes \in BOOLEAN :
        /\ Gap(yes) >= 0
        /\ Gap(yes) <= (Eps - 1) * MergedCount(summary.buys, yes)

\* A buy of one side was popped with a residue while another buy of that
\* side is still queued.
C1_Witness ==
    /\ pc = "done"
    /\ \E yes \in BOOLEAN :
         /\ Gap(yes) > 0
         /\ MergedCount(summary.buys, yes) >= 1
         /\ (IF yes THEN summary.unmergedYes ELSE summary.unmergedNo) > 0

\* ------------------------------------------------------------------ C2
\* C2: strict FIFO per side.  In each queue every entry behind the front is
\* untouched (remaining = size, consumedSize = 0, no merge group), and a buy
\* that some merge drew from has every earlier buy of its side merged and
\* popped.
C2_StrictFIFO ==
    /\ \A queue \in {yesQueue, noQueue} :
         \A i \in 2..Len(queue) :
           LET b == buys[queue[i].buyRef] IN
             /\ queue[i].remaining = b.size
             /\ b.consumedSize = 0
             /\ b.mergeGroupIds = <<>>
    /\ \A b \in 1..Len(buys) :
         buys[b].mergeGroupIds # <<>> =>
           \A a \in 1..(b - 1) :
             OnYes(buys[a]) = OnYes(buys[b]) =>
               /\ buys[a].merged
               /\ a \notin Queued(yesQueue) \cup Queued(noQueue)

\* A queue whose front is partly drained behind a popped buy, with another
\* buy waiting behind it.
C2_Witness ==
    \E queue \in {yesQueue, noQueue} :
      /\ Len(queue) >= 2
      /\ queue[1].remaining < buys[queue[1].buyRef].size
      /\ \E a \in 1..Len(buys) :
           /\ a < queue[1].buyRef
           /\ OnYes(buys[a]) = OnYes(buys[queue[1].buyRef])

\* ------------------------------------------------------------------ C3
\* C3: after every processed event every buy has 0 <= consumedSize <= size.
C3_ConsumedWithinSize ==
    \A b \in 1..Len(buys) :
      /\ 0 <= buys[b].consumedSize
      /\ buys[b].consumedSize <= buys[b].size

\* Mid-input, one buy is partly consumed and another fully consumed.
C3_Witness ==
    /\ pc = "loop"
    /\ \E a, b \in 1..Len(buys) :
         /\ buys[a].consumedSize = buys[a].size
         /\ 0 < buys[b].consumedSize
         /\ buys[b].consumedSize < buys[b].size

\* ------------------------------------------------------------------ C4
MergedOnlyWhenConsumed(bs) ==
    \A b \in 1..Len(bs) :
      /\ bs[b].merged => bs[b].size - bs[b].consumedSize < Eps
      /\ bs[b].mergeGroupIds = <<>> => ~bs[b].merged

\* C4: in every state and in the returned summary, a buy with merged = true
\* has size - consumedSize < 0.001, and a buy no merge drew from has
\* merged = false.
C4_MergedOnlyWhenConsumed ==
    /\ MergedOnlyWhenConsumed(buys)
    /\ pc = "done" => MergedOnlyWhenConsumed(summary.buys)

\* The summary holds a merged buy, a partly consumed buy that is not merged
\* and a buy no merge drew from.
C4_Witness ==
    /\ pc = "done"
    /\ \E a, b, c \in 1..Len(summary.buys) :
         /\ summary.buys[a].merged
         /\ summary.buys[b].consumedSize > 0 /\ ~summary.buys[b].merged
         /\ summary.buys[c].mergeGroupIds = <<>>

\* ------------------------------------------------------------------ C5
\* C5: the k-th Merge event of the input produces the k-th element of
\* merges, with mergeGroupId = k.
C5_GroupIdIsMergeIndex ==
    /\ Len(merges) = Len(MergeEvents)
    /\ \A k \in 1..Len(merges) :
         /\ merges[k]._id = MergeEvents[k]._id
         /\ merges[k].mergeGroupId = k

\* Three merges, the first on empty queues, the last one drawing, with
\* another event in between.
C5_Witness ==
    /\ Len(merges) = 3
    /\ merges[1].consumedBuyIds = <<>>
    /\ merges[3].consumedBuyIds # <<>>
    /\ Len(events) > 3


\* ------------------------------------------------------------------ C6
\* Total remaining held by a queue.
Supply(queue) ==
    LET f[i \in 0..Len(queue)] ==
          IF i = 0 THEN 0 ELSE f[i - 1] + queue[i].remaining
    IN f[Len(queue)]

\* The event the step just taken processed.
Current == events'[Len(events')]

\* What the step drew from one side (increase of consumedSize) and what it
\* removed from that side's queue (decrease of the total remaining).
Drawn(yes) == ConsumedSum(buys', yes) - ConsumedSum(buys, yes)
RemovedYes == Supply(yesQueue) - Supply(yesQueue')
RemovedNo == Supply(noQueue) - Supply(noQueue')

\* C6 (as claimed): a Merge with pairs = P removes from the YES queue
\* exactly min(P, total remaining in the YES queue) and from the NO queue
\* exactly min(P, total remaining in the NO queue).
C6_DrainsExactlyMin ==
    [][Processed("Merge") =>
         /\ RemovedYes = Min(Current.data.pairs, Supply(yesQueue))
         /\ RemovedNo = Min(Current.data.pairs, Supply(noQueue))]_vars

WithinEpsOfMin(drawn, removed, pairs, supply) ==
    /\ drawn <= Min(pairs, supply)
    /\ drawn >= Min(pairs, supply) - Eps
    /\ removed >= drawn
    /\ removed < drawn + Eps

\* C6 (amended): a Merge with pairs = P draws from the YES side
\* min(P, total remaining in the YES queue) to within 0.001 (never more, at
\* most 0.001 less) and from the NO side min(P, total remaining in the NO
\* queue) to within 0.001; what leaves a queue is what was drawn plus a
\* residue below 0.001.  Each side's amount is bounded by P and that side's
\* queue alone.  (Buy sizes are positive.)
C6_DrainsMinWithinEps ==
    [][Processed("Merge") =>
         /\ WithinEpsOfMin(Drawn(TRUE), RemovedYes,
                           Current.data.pairs, Supply(yesQueue))
         /\ WithinEpsOfMin(Drawn(FALSE), RemovedNo,
                           Current.data.pairs, Supply(noQueue))]_vars

\* One merge drew the full pair count from one side and less, but
\* something, from the other.
C6_Witness ==
    /\ Len(merges) = 1
    /\ \E yes \in BOOLEAN :
         /\ ConsumedSum(buys, yes) = merges[1].pairs
         /\ ConsumedSum(buys, ~yes) > 0
         /\ ConsumedSum(buys, ~yes) < merges[1].pairs - Eps

\* ------------------------------------------------------------------ C7
\* Sum of the profit carried by the Merge events of an input.
PayloadProfit(es) ==
    LET f[i \in 0..Len(es)] ==
          IF i = 0 THEN 0
          ELSE f[i - 1] + (IF IsMerge(es[i]) THEN es[i].data.profit ELSE 0)
    IN f[Len(es)]

\* Identifiers of the buys of one side.
SideIds(bs, yes) == {bs[i]._id : i \in {j \in 1..Len(bs) : OnYes(bs[j]) = yes}}

\* C7: a Merge that requests more than a queue holds is processed like any
\* other: the loop goes on, the appended AnnotatedMerge carries pairs,
\* pairCost and profit of the payload, its consumedBuyIds holds no buy of a
\* side whose queue was empty, and the returned totalProfit is the sum of
\* the payload profits.
C7_UnderSupplyNotReconciled ==
    [][/\ ( /\ Processed("Merge")
            /\ \/ Supply(yesQueue) < Current.data.pairs
               \/ Supply(noQueue) < Current.data.pairs )
          => LET m == merges'[Len(merges')] IN
               /\ pc' = "loop"
               /\ Len(merges') = Len(merges) + 1
               /\ m._id = Current._id
               /\ m.pairs = Current.data.pairs
               /\ m.pairCost = Current.data.pair_cost
               /\ m.profit = Current.data.profit
               /\ yesQueue = <<>> =>
                    Range(m.consumedBuyIds) \cap SideIds(buys, TRUE) = {}
               /\ noQueue = <<>> =>
                    Range(m.consumedBuyIds) \cap SideIds(buys, FALSE) = {}
       /\ (pc = "loop" /\ pc' = "done")
          => summary'.totalProfit = PayloadProfit(events)]_vars

\* The under-supply scenario was returned: one YES buy smaller than the
\* pair count of the only merge, no NO buy.
C7_Witness ==
    /\ pc = "done"
    /\ Len(summary.merges) = 1
    /\ Len(summary.buys) = 1
    /\ OnYes(summary.buys[1])
    /\ summary.buys[1].size < summary.merges[1].pairs
    /\ summary.merges[1].consumedBuyIds = <<summary.buys[1]._id>>
    /\ summary.totalProfit = summary.merges[1].profit

\* ------------------------------------------------------------------ C8
\* C8: a Merge processed while both queues are empty appends an
\* AnnotatedMerge with the next group id and an empty consumedBuyIds and
\* changes no AnnotatedBuy and no queue.
C8_ZeroSupply ==
    [][(Processed("Merge") /\ yesQueue = <<>> /\ noQueue = <<>>) =>
         /\ Len(merges') = Len(merges) + 1
         /\ SubSeq(merges', 1, Len(merges)) = merges
         /\ merges'[Len(merges')].mergeGroupId = mergeGroupCounter + 1
         /\ merges'[Len(merges')].mergeGroupId = Len(merges) + 1
         /\ merges'[Len(merges')].consumedBuyIds = <<>>
         /\ UNCHANGED <<buys, yesQueue, noQueue>>]_vars

\* A second merge ran on empty queues after buys had been merged.
C8_Witness ==
    /\ Len(events) > 0
    /\ IsMerge(events[Len(events)])
    /\ Len(merges) >= 2
    /\ merges[Len(merges)].consumedBuyIds = <<>>
    /\ merges[Len(merges)].mergeGroupId = Len(merges)
    /\ Len(buys) >= 1
    /\ yesQueue = <<>> /\ noQueue = <<>>

\* ------------------------------------------------------------------ C9
\* Positions of the input events of a kind.
Positions(kind) == {i \in 1..Len(events) : events[i].event = kind}

\* The input is some buys followed by a single Merge of P pairs, the YES
\* buys and the NO buys each totalling exactly P.
FullMatchInput ==
    /\ Cardinality(Positions("Merge")) = 1
    /\ \A i \in Positions("Buy") : \A j \in Positions("Merge") : i < j
    /\ SizeSum(buys, TRUE) = merges[1].pairs
    /\ SizeSum(buys, FALSE) = merges[1].pairs

FullMatchResult ==
    /\ \A b \in 1..Len(summary.buys) :
         /\ summary.buys[b].consumedSize = summary.buys[b].size
         /\ summary.buys[b].merged
         /\ summary.buys[b]._id \in Range(summary.merges[1].consumedBuyIds)
    /\ summary.unmergedYes = 0
    /\ summary.unmergedNo = 0
    /\ summary.totalProfit = summary.merges[1].profit

\* C9 (as claimed): when a single Merge of P pairs follows YES buys
\* totalling exactly P and NO buys totalling exactly P, every buy ends with
\* consumedSize = size and merged = true, the merge lists all of them,
\* unmergedYes = unmergedNo = 0 and totalProfit is the merge's profit.
C9_FullMatch ==
    (pc = "done" /\ FullMatchInput) => FullMatchResult

\* The last buy of each side is larger than the tolerance.
LastBuyAboveEps(yes) ==
    \A b \in 1..Len(buys) :
      (OnYes(buys[b]) = yes
         /\ \A c \in (b + 1)..Len(buys) : OnYes(buys[c]) # yes)
      => buys[b].size > Eps

\* C9 (amended): the same, provided the buys have positive size and the last
\* YES buy and the last NO buy are each larger than 0.001.
C9_FullMatchAboveEps ==
    (pc = "done" /\ FullMatchInput
       /\ LastBuyAboveEps(TRUE) /\ LastBuyAboveEps(FALSE))
    => FullMatchResult

\* A full match was returned in which one side held two buys.
C9_Witness ==
    /\ pc = "done"
    /\ FullMatchInput
    /\ LastBuyAboveEps(TRUE) /\ LastBuyAboveEps(FALSE)
    /\ Len(buys) = 3

\* ----------------------------------------------------------------- C10
\* The merge being processed drew from this buy.
DrawnFrom(b) ==
    /\ buys'[b].consumedSize > buys[b].consumedSize
    /\ mergeGroupCounter' \in Range(buys'[b].mergeGroupIds)

\* The front of a queue is drained and popped and the entry behind it is
\* drawn for the rest.
SplitOver(queue, queueAfter) ==
    /\ buys'[queue[1].buyRef].merged
    /\ queue[1].buyRef \notin Queued(queueAfter)
    /\ DrawnFrom(queue[2].buyRef)

\* A Merge that needs more than the front holds, by more than slack, splits
\* over the first two entries.
SplitWhenNeeded(queue, queueAfter, slack) ==
    (Len(queue) >= 2 /\ Current.data.pairs > queue[1].remaining + slack)
      => SplitOver(queue, queueAfter)

\* What the summary reports for the buys left in a queue with more than the
\* tolerance.
LeftoverReported(queue, unmerged) ==
    /\ \A i \in 1..Len(queue) :
         queue[i].remaining > Eps =>
           LET b == summary'.buys[queue[i].buyRef] IN
             /\ ~b.merged
             /\ \A k \in 1..Len(summary'.merges) :
                  (k \in Range(b.mergeGroupIds))
                    <=> (b._id \in Range(summary'.merges[k].consumedBuyIds))
             /\ unmerged >= queue[i].remaining
    /\ unmerged = Supply(queue)

\* C10 (as claimed): when a Merge needs more than the front buy holds, the
\* front buy is drained, marked merged and popped and the next buy of that
\* side is drawn for the rest; a buy left with remaining > 0.001 at the end
\* is reported with merged = false, carries the group id of exactly the
\* merges that list it in consumedBuyIds, and its remaining is counted in
\* the side's unmerged total.
C10_SplitConsumption ==
    [][/\ Processed("Merge") =>
            /\ SplitWhenNeeded(yesQueue, yesQueue', 0)
            /\ SplitWhenNeeded(noQueue, noQueue', 0)
       /\ (pc = "loop" /\ pc' = "done") =>
            /\ LeftoverReported(yesQueue, summary'.unmergedYes)
            /\ LeftoverReported(noQueue, summary'.unmergedNo)]_vars

\* C10 (amended): the same, where the next buy is drawn when the Merge needs
\* more than the front buy holds by more than 0.001.
C10_SplitConsumptionAboveEps ==
    [][/\ Processed("Merge") =>
            /\ SplitWhenNeeded(yesQueue, yesQueue', Eps)
            /\ SplitWhenNeeded(noQueue, noQueue', Eps)
       /\ (pc = "loop" /\ pc' = "done") =>
            /\ LeftoverReported(yesQueue, summary'.unmergedYes)
            /\ LeftoverReported(noQueue, summary'.unmergedNo)]_vars

\* The split scenario was returned: a merged buy and, behind it on the same
\* side, a buy the same merge drew from that still holds more than the
\* tolerance.
C10_Witness ==
    /\ pc = "done"
    /\ \E queue \in {yesQueue, noQueue} :
         /\ Len(queue) >= 1
         /\ queue[1].remaining > Eps
         /\ \E a \in 1..Len(summary.buys) :
              LET b == summary.buys[queue[1].buyRef] IN
                /\ a < queue[1].buyRef
                /\ OnYes(summary.buys[a]) = OnYes(b)
                /\ summary.buys[a].merged
                /\ ~b.merged
                /\ b.consumedSize > 0
                /\ Range(summary.buys[a].mergeGroupIds)
                     \cap Range(b.mergeGroupIds) # {}


\* ----------------------------------------------------------------- C13
\* C13: roundStart is the timestamp of the first RoundStart event of the
\* input, and null when the input has none.
C13_FirstRoundStartWins ==
    IF Positions("RoundStart") = {}
    THEN roundStart = Null
    ELSE \E i \in Positions("RoundStart") :
           /\ \A j \in Positions("RoundStart") : i <= j
           /\ roundStart = events[i].ts

\* ----------------------------------------------------------------- C15
\* C15: an Error event appends exactly one record carrying its timestamp,
\* message and context at the end of errors and changes no queue, no
\* AnnotatedBuy, no AnnotatedMerge, not the group-id counter and neither
\* roundStart nor roundEnd, so the state the later events act on is the one
\* they would find without it.
C15_ErrorOnlyAppends ==
    [][Processed("Error") =>
         /\ Len(errors') = Len(errors) + 1
         /\ SubSeq(errors', 1, Len(errors)) = errors
         /\ errors'[Len(errors')].ts = Current.ts
         /\ errors'[Len(errors')].message = Current.data.message
         /\ errors'[Len(errors')].context = Current.data.context
         /\ UNCHANGED <<yesQueue, noQueue, buys, merges, mergeGroupCounter,
                        roundStart, roundEnd, pc>>]_vars

\* A second Error event was processed while a partly drained buy is queued.
C15_Witness ==
    /\ Len(events) > 0
    /\ events[Len(events)].event = "Error"
    /\ Len(errors) = 2
    /\ errors[1].ts < errors[2].ts
    /\ \E queue \in {yesQueue, noQueue} :
         /\ Len(queue) > 0
         /\ queue[1].remaining < buys[queue[1].buyRef].size

\* ----------------------------------------------------------------- C16
\* The events of a kind, in input order.
BuyEvents == SelectSeq(events, IsBuy)

\* C16: in the returned summary totalBuys and totalMerges count the Buy and
\* Merge events of the input, buys and merges list them in input order,
\* totalProfit is the sum of the merges' profit and unmergedYes /
\* unmergedNo are the sums of remaining over the entries still queued.
C16_DerivedTotals ==
    pc = "done" =>
      /\ summary.totalBuys = Len(BuyEvents)
      /\ summary.totalMerges = Len(MergeEvents)
      /\ Len(summary.buys) = Len(BuyEvents)
      /\ Len(summary.merges) = Len(MergeEvents)
      /\ \A k \in 1..Len(BuyEvents) : summary.buys[k]._id = BuyEvents[k]._id
      /\ \A k \in 1..Len(MergeEvents) :
           summary.merges[k]._id = MergeEvents[k]._id
      /\ summary.totalProfit = PayloadProfit(events)
      /\ summary.unmergedYes = Supply(yesQueue)
      /\ summary.unmergedNo = Supply(noQueue)

\* A summary with two buys, a merge, a non-zero profit and a queue that
\* still holds an untouched and a partly drained entry.
C16_Witness ==
    /\ pc = "done"
    /\ summary.totalBuys >= 2
    /\ summary.totalMerges >= 1
    /\ summary.totalProfit # 0
    /\ \E queue \in {yesQueue, noQueue} :
         /\ Len(queue) >= 2
         /\ queue[1].remaining < buys[queue[1].buyRef].size

C18_GroupIdsStrictlyIncreasing ==
    \A b \in 1..Len(buys) :
      \A i \in 1..(Len(buys[b].mergeGroupIds) - 1) :
        buys[b].mergeGroupIds[i] < buys[b].mergeGroupIds[i + 1]

\* A buy was drawn by two merges with another merge in between that did not
\* reach it.
C18_Witness ==
    \E b \in 1..Len(buys) :
      /\ Len(buys[b].mergeGroupIds) = 2
      /\ buys[b].mergeGroupIds[2] > buys[b].mergeGroupIds[1]


\* ----------------------------------------------------------------- C14
IsKnown(e) == e.event \notin OtherKinds

\* The input without the events of unknown kinds.
KnownEvents == SelectSeq(events, IsKnown)

\* What the loop captures as market / mode from a list of events.
MarketOf(es) ==
    LET f[i \in 0..Len(es)] ==
          IF i = 0 THEN "" ELSE CaptureMarket(f[i - 1], es[i])
    IN f[Len(es)]

ModeOf(es) ==
    LET f[i \in 0..Len(es)] ==
          IF i = 0 THEN "" ELSE CaptureMode(f[i - 1], es[i])
    IN f[Len(es)]

ProcessedUnknown ==
    /\ Len(events') = Len(events) + 1
    /\ Current.event \in OtherKinds

\* An event of unknown kind changes nothing the summary is built from,
\* market and mode aside.
UnknownLeavesRest ==
    ProcessedUnknown =>
      UNCHANGED <<yesQueue, noQueue, buys, merges, errors, roundStart,
                  roundEnd, mergeGroupCounter, pc, summary>>

\* C14 (as claimed): events of unknown kind are ignored; the summary,
\* market and mode included, is the one of the input without them.
C14_UnknownIgnored ==
    [][/\ UnknownLeavesRest
       /\ (pc = "loop" /\ pc' = "done") =>
            /\ summary'.market = MarketOf(KnownEvents)
            /\ summary'.mode = ModeOf(KnownEvents)]_vars

\* C14 (amended): an event of unknown kind leaves every field of the
\* summary unchanged except market and mode, which are captured from it
\* when no earlier event carried one.
C14_UnknownIgnoredButCaptured ==
    [][/\ UnknownLeavesRest
       /\ ProcessedUnknown =>
            /\ market' = (IF market = "" THEN Current.data.market ELSE market)
            /\ mode' = (IF mode = "" THEN Current.mode ELSE mode)]_vars

\* A summary whose mode comes from an event of unknown kind and differs from
\* the mode of the input without it.
C14_Witness ==
    /\ pc = "done"
    /\ Len(KnownEvents) < Len(events)
    /\ Len(summary.buys) > 0
    /\ summary.mode # ""
    /\ ModeOf(KnownEvents) # ""
    /\ summary.mode # ModeOf(KnownEvents)

\* ----------------------------------------------------------------- C19
\* Positions of the input events that carry a market / a mode.
WithMarket == {i \in 1..Len(events) : events[i].data.market # ""}
WithMode == {i \in 1..Len(events) : events[i].mode # ""}

First(S) == CHOOSE i \in S : \A j \in S : i <= j

CapturedOnce(mk, md) ==
    /\ mk = IF WithMarket = {} THEN ""
            ELSE events[First(WithMarket)].data.market
    /\ md = IF WithMode = {} THEN "" ELSE events[First(WithMode)].mode

\* C19: market is the data.market of the first input event that carries a
\* non-empty market and mode the mode of the first event that carries a
\* non-empty mode, after every event and in the returned summary.
C19_CapturedOnce ==
    /\ CapturedOnce(market, mode)
    /\ pc = "done" => CapturedOnce(summary.market, summary.mode)

\* The summary's market and mode come from different events and later
\* events carried other values.
C19_Witness ==
    /\ pc = "done"
    /\ WithMarket # {} /\ WithMode # {}
    /\ First(WithMarket) < First(WithMode)
    /\ \E i \in WithMarket : events[i].data.market # summary.market
    /\ \E i \in WithMode : events[i].mode # summary.mode


\* ----------------------------------------------------------------- C20
\* A request was answered in this step.
Answered ==
    /\ store' = store
    /\ <<request, response>>' # <<request, response>>

\* The stored records a request for market mk and mode parameter qmd asks
\* for: those of the market, of every mode when the parameter is left out
\* or is 'all', of that mode otherwise.
Wanted(mk, qmd) ==
    {store[i] : i \in {j \in 1..Len(store) :
        /\ store[j].data.market = mk
        /\ qmd \in {"", "all"} \/ store[j].mode = qmd}}

\* C20: the list handed to processRoundEvents holds exactly the stored
\* records of the requested market (and mode, unless it is left out or
\* 'all'), each once and as stored, in ascending order of ts.
C20_RoundQueryList ==
    [][(Answered /\ request'.market # "") =>
         LET handed == response'.events IN
           /\ response'.status = 200
           /\ Range(handed) = Wanted(request'.market, request'.mode)
           /\ Len(handed) = Cardinality(Range(handed))
           /\ \A i \in 1..(Len(handed) - 1) :
                handed[i].ts <= handed[i + 1].ts]_vars

\* A request for one mode was answered with two records whose store order
\* is not their ts order, while the store holds records of the other mode
\* and of another market.
C20_Witness ==
    /\ request.mode \in StoreModes
    /\ response.status = 200
    /\ Len(response.events) = 2
    /\ response.events[1]._id > response.events[2]._id
    /\ Len(store) = 3
    /\ store[3] \notin Range(response.events)


\* C12 -- Totality: for any list of event records, among them records with
\* no data payload, Buys without side or size and Merges without pairs or
\* profit, the call never raises and can always return; the summary it
\* returns accounts for every Buy, Merge and Error of the input, and a
\* missing side, size, pairs or profit appears in it as missing.
NoData(evt) == "absent" \in DOMAIN evt.data

IsError(e) == e.event = "Error"

ErrorEvents == SelectSeq(events, IsError)

C12_Totality ==
    /\ pc # "raised"
    /\ pc = "loop" => ENABLED Finalize
    /\ pc = "done" =>
         LET bs == BuyEvents
             ms == MergeEvents
             es == ErrorEvents
         IN /\ summary.totalBuys = Len(bs)
            /\ summary.totalMerges = Len(ms)
            /\ Len(summary.buys) = Len(bs)
            /\ Len(summary.merges) = Len(ms)
            /\ Len(summary.errors) = Len(es)
            /\ \A k \in 1..Len(bs) :
                 /\ summary.buys[k]._id = bs[k]._id
                 /\ summary.buys[k].side = bs[k].data.side
                 /\ summary.buys[k].size = bs[k].data.size
            /\ \A k \in 1..Len(ms) :
                 /\ summary.merges[k]._id = ms[k]._id
                 /\ summary.merges[k].pairs = ms[k].data.pairs
                 /\ summary.merges[k].profit = ms[k].data.profit

\* A summary returned for an input with a record without payload, a Buy
\* whose payload has no size and a Merge whose payload has no profit.
C12_Witness ==
    /\ pc = "done"
    /\ \E i \in 1..Len(events) : NoData(events[i])
    /\ \E i \in 1..Len(events) :
         /\ events[i].event = "Buy" /\ ~NoData(events[i])
         /\ events[i].data.size = Undefined
    /\ \E i \in 1..Len(events) :
         /\ events[i].event = "Merge" /\ ~NoData(events[i])
         /\ events[i].data.profit = Undefined
    /\ summary.totalProfit = NaN

\* ----------------------------------------------------------------- C21
\* C21: a round query without a market is answered with status 400; the
\* handler has then neither queried the event store nor called
\* processRoundEvents.
C21_MissingMarketRejected ==
    [][(Answered /\ request'.market = "") =>
         /\ response'.status = 400
         /\ ~response'.queried
         /\ ~response'.invoked
         /\ response'.events = <<>>]_vars

\* A request without market was rejected while the store held a record
\* that carries no market either.
C21_Witness ==
    /\ request.market = ""
    /\ response.status = 400
    /\ \E i \in 1..Len(store) : store[i].data.market = ""

\* ----------------------------------------------------------------- C22
\* The round listing was answered in this step.
Listing ==
    /\ store' = store
    /\ listing' # listing

\* The round identifiers with at least one Buy, Merge, RoundStart or
\* RoundEnd record.
Qualifying ==
    {store[i].data.market :
       i \in {j \in 1..Len(store) :
                /\ store[j].data.market # ""
                /\ store[j].event \in {"Buy", "Merge", "RoundStart",
                                        "RoundEnd"}}}

\* The latest timestamp of the qualifying records of a round.
LatestOf(mk) ==
    LET ts == {store[i].ts :
                 i \in {j \in 1..Len(store) :
                          /\ store[j].data.market = mk
                          /\ store[j].event \in {"Buy", "Merge", "RoundStart",
                                                  "RoundEnd"}}}
    IN CHOOSE t \in ts : \A u \in ts : u <= t

\* Where a round appears in the groups of a listing: <<key, position>>.
PlacesOf(groups, mk) ==
    UNION {{<<k, i>> : i \in {j \in 1..Len(groups[k]) :
                                 groups[k][j].slug = mk}} :
           k \in DOMAIN groups}

\* The pieces of an identifier before its first '-<month>-' token, or the
\* whole identifier when it has none.
BeforeFirstMonth(t) ==
    LET at == {i \in 2..(Len(t) - 1) : t[i] \in Months} IN
      IF at = {} THEN t
      ELSE SubSeq(t, 1, (CHOOSE i \in at : \A j \in at : i <= j) - 1)

\* The same, for the first such token that has text before it.
BeforeFirstMonthAfterText(t) ==
    LET at == {i \in 2..(Len(t) - 1) :
                 t[i] \in Months /\ SubSeq(t, 1, i - 1) # <<"">>}
    IN IF at = {} THEN t
       ELSE SubSeq(t, 1, (CHOOSE i \in at : \A j \in at : i <= j) - 1)

\* Every qualifying round is listed once, and each group is in descending
\* order of the rounds' latest timestamps.
ListedOnceLatestFirst(groups) ==
    /\ \A mk \in Qualifying : Cardinality(PlacesOf(groups, mk)) = 1
    /\ \A k \in DOMAIN groups :
         /\ \A i \in 1..Len(groups[k]) :
              groups[k][i].latestTs = LatestOf(groups[k][i].slug)
         /\ \A i \in 1..(Len(groups[k]) - 1) :
              groups[k][i].latestTs >= groups[k][i + 1].latestTs

\* C22 as stated: every round identifier with a Buy, Merge, RoundStart or
\* RoundEnd record appears in exactly one group, whose key is the text
\* before the identifier's first '-<month>-' token (the whole identifier
\* when it has none), and each group is ordered by latest timestamp
\* descending.
C22_RoundListing ==
    [][Listing =>
         /\ ListedOnceLatestFirst(listing'.groups)
         /\ \A mk \in Qualifying :
              \A pl \in PlacesOf(listing'.groups, mk) :
                pl[1] = BeforeFirstMonth(Pieces[mk])]_vars

\* C22 amended: as above, the key being the text before the first
\* '-<month>-' token that has at least one character before it.
C22_RoundListingAfterText ==
    [][Listing =>
         /\ ListedOnceLatestFirst(listing'.groups)
         /\ \A mk \in Qualifying :
              \A pl \in PlacesOf(listing'.groups, mk) :
                pl[1] = BeforeFirstMonthAfterText(Pieces[mk])]_vars

\* A listing with a group of two rounds whose latest timestamps differ and
\* whose records were stored in the other order, and with the identifier
\* that begins with a month token.
C22_Witness ==
    /\ listing.status = 200
    /\ \E k \in DOMAIN listing.groups :
         /\ Len(listing.groups[k]) = 2
         /\ listing.groups[k][1].latestTs > listing.groups[k][2].latestTs
         /\ \E i, j \in 1..Len(store) :
              /\ i < j
              /\ store[i].data.market = listing.groups[k][2].slug
              /\ store[j].data.market = listing.groups[k][1].slug
    /\ \E k \in DOMAIN listing.groups :
         listing.groups[k][1].slug = "-february-19"

\* ----------------------------------------------------------------- C23
\* The identifier a connection starts after: the lastId parameter, or the
\* tail of the store when it was left out.
StartId ==
    IF stream.start.kind = "id" THEN stream.start.id ELSE stream.existing

\* C23 (order and cursor): on one connection the records are delivered in
\* strictly ascending order of identifier, and only records with an
\* identifier greater than the starting cursor are delivered.
C23_AscendingAfterCursor ==
    stream.start.kind # "invalid" =>
      /\ \A i \in 1..(Len(stream.delivered) - 1) :
           stream.delivered[i] < stream.delivered[i + 1]
      /\ \A i \in 1..Len(stream.delivered) : stream.delivered[i] > StartId

\* ----------------------------------------------------------------- C24
\* C24: a connection opened without lastId never delivers a record that
\* was stored when it was opened; a connection opened with an identifier
\* as lastId never delivers a record whose identifier is not greater.
C24_StartsAtCursor ==
    \A i \in 1..Len(stream.delivered) :
      /\ stream.start.kind = "none" => stream.delivered[i] > stream.existing
      /\ stream.start.kind = "id" => stream.delivered[i] > stream.start.id

\* A connection opened without lastId on a store that held records has
\* delivered a record.
C24_Witness ==
    /\ stream.start.kind = "none"
    /\ stream.existing > 0
    /\ stream.delivered # <<>>

\* ----------------------------------------------------------------- C25
\* A notification arrived in this step.
Notified == ui'.notified = ui.notified + 1

\* The callback of notification evt ran its part after fetchMarkets in
\* this step.
Decided(evt) ==
    \/ Notified /\ ui'.lastEvent = evt
                /\ evt.event \notin {"RoundStart", "RoundEnd"}
    \/ \E k \in 1..Len(ui.callbacks) :
         /\ ui.callbacks[k] = evt
         /\ ui'.callbacks = Without(ui.callbacks, k)

\* A request for the summary of a round was sent, or a timer that sends
\* it was armed, in this step.
Refetches(mk) ==
    \/ /\ Len(ui'.roundFetches) = Len(ui.roundFetches) + 1
       /\ ui'.roundFetches[Len(ui'.roundFetches)].market = mk
    \/ /\ Len(ui'.timers) = Len(ui.timers) + 1
       /\ ui'.timers[Len(ui'.timers)] = mk

\* C25: every RoundStart or RoundEnd notification sends a request for the
\* round listing; every notification whose market is the selected market
\* when its callback looks at it sends a request for that round's summary,
\* at once or by the timer it arms; and every such timer, when it fires,
\* sends that request.
C25_ReactsToNotifications ==
    [][/\ (Notified /\ ui'.lastEvent.event \in {"RoundStart", "RoundEnd"})
           => ui'.marketFetches = ui.marketFetches + 1
       /\ \A evt \in Notifications :
            (Decided(evt) /\ evt.market # ""
               /\ evt.market = ui.selectedMarket) => Refetches(evt.market)
       /\ \A k \in 1..Len(ui.timers) :
            ui'.timers = Without(ui.timers, k) =>
              /\ Len(ui'.roundFetches) = Len(ui.roundFetches) + 1
              /\ ui'.roundFetches[Len(ui'.roundFetches)].market
                   = ui.timers[k]]_vars

\* With nothing selected at mount and no user input, notifications alone
\* have re-queried the listing three times and fetched a round both at
\* once and by a timer.
C25_Witness ==
    /\ ui.steps = 0
    /\ ui.marketFetches = 4
    /\ ui.callbacks = <<>>
    /\ ui.timers = <<>>
    /\ Len(ui.roundFetches) = 2
    /\ ui.lastEvent.event = "RoundEnd"

\* ----------------------------------------------------------------- C26
\* The state a drain loop of the Merge just processed started from.
DrainStart(queue) ==
    [queue |-> queue, buys |-> buys, remainingSide |-> DataOf(Current).pairs,
     consumedBuyIds |-> <<>>]

\* Every iteration of the loop from state d pops the front entry or is the
\* last one.
RECURSIVE PopsOrLast(_, _)
PopsOrLast(d, groupId) ==
    IF ~DrainMore(d.remainingSide, d.queue) THEN TRUE
    ELSE LET n == DrainStep(d, groupId) IN
           /\ \/ n.queue = Tail(d.queue)
              \/ ~DrainMore(n.remainingSide, n.queue)
           /\ PopsOrLast(n, groupId)

\* The number of iterations of the loop from state d.
RECURSIVE Iterations(_, _)
Iterations(d, groupId) ==
    IF ~DrainMore(d.remainingSide, d.queue) THEN 0
    ELSE 1 + Iterations(DrainStep(d, groupId), groupId)

\* C26: in each drain loop of a Merge every iteration pops the front entry
\* or is the last, the loop runs at most (queue length + 1) times and ends
\* with the queue the Merge leaves, whatever the pair count and the sizes
\* (zero, negative and missing ones included); and the input can always be
\* finished.
C26_DrainTerminates ==
    [][/\ Processed("Merge") =>
            \A q \in {<<yesQueue, yesQueue'>>, <<noQueue, noQueue'>>} :
              LET d == DrainStart(q[1]) IN
                /\ PopsOrLast(d, mergeGroupCounter')
                /\ Iterations(d, mergeGroupCounter') <= Len(q[1]) + 1
                /\ Drain(d, mergeGroupCounter').queue = q[2]
       /\ pc = "loop" => ENABLED Finalize]_vars

\* A Merge whose YES loop ran twice: it popped an entry of negative size
\* and then met an entry without size.
C26_Witness ==
    /\ Len(events) = 3
    /\ events[3].event = "Merge"
    /\ Len(buys) = 2
    /\ buys[1].size = -6 /\ buys[1].mergeGroupIds # <<>>
    /\ buys[2].size = Undefined /\ buys[2].mergeGroupIds # <<>>
    /\ Len(yesQueue) = 1

\* ----------------------------------------------------------------- C27
\* What the payload of an event says, a missing payload saying nothing.
Said(evt) == IF NoData(evt) THEN EmptyObject ELSE evt.data

\* C27: a Buy event appends one buy with consumedSize 0, merged false and
\* no merge group, and one entry with remaining = size at the back of the
\* YES queue when side is exactly 'YES' and of the NO queue otherwise (a
\* missing side included); the buys, merges and entries there were stay
\* as they are.
C27_BuyAppends ==
    [][Processed("Buy") =>
         LET said == Said(Current)
             entry == [buyId |-> Current._id, remaining |-> said.size,
                       buyRef |-> Len(buys) + 1]
         IN /\ Len(buys') = Len(buys) + 1
            /\ SubSeq(buys', 1, Len(buys)) = buys
            /\ buys'[Len(buys')]._id = Current._id
            /\ buys'[Len(buys')].side = said.side
            /\ buys'[Len(buys')].size = said.size
            /\ buys'[Len(buys')].consumedSize = 0
            /\ buys'[Len(buys')].merged = FALSE
            /\ buys'[Len(buys')].mergeGroupIds = <<>>
            /\ IF said.side = "YES"
               THEN yesQueue' = Append(yesQueue, entry) /\ noQueue' = noQueue
               ELSE noQueue' = Append(noQueue, entry) /\ yesQueue' = yesQueue
            /\ merges' = merges]_vars

\* A Buy without side was queued on the NO queue behind another entry.
C27_Witness ==
    /\ Len(events) >= 2
    /\ events[Len(events)].event = "Buy"
    /\ ~NoData(events[Len(events)])
    /\ events[Len(events)].data.side = ""
    /\ Len(noQueue) = 2
    /\ noQueue[2].buyId = Len(events)

\* ----------------------------------------------------------------- C28
\* The queue of a buy's side and the other one.
OwnQueue(b) == IF buys[b].side = "YES" THEN yesQueue ELSE noQueue
OtherQueue(b) == IF buys[b].side = "YES" THEN noQueue ELSE yesQueue

\* A buy is referenced by an entry of its side's queue exactly when it is
\* not merged, and never by an entry of the other queue.
QueuedIffNotMerged ==
    \A b \in 1..Len(buys) :
      /\ b \in Queued(OwnQueue(b)) <=> ~buys[b].merged
      /\ b \notin Queued(OtherQueue(b))

\* The finalization pass leaves every merged flag as it finds it.
FinalizationKeepsFlags ==
    (pc = "loop" /\ pc' = "done") =>
      \A b \in 1..Len(buys) : buys'[b].merged = buys[b].merged

\* C28: after every event, and after the finalization pass, a buy is
\* referenced by an entry of its side's queue if and only if its merged
\* flag is false, so no queued entry refers to a merged buy; and the
\* finalization pass changes no merged flag.
C28_QueuedIffNotMerged ==
    []QueuedIffNotMerged /\ [][FinalizationKeepsFlags]_vars

\* A summary with a buy that was merged and left its queue, a buy that a
\* merge drew from and left queued, and a queued entry below the
\* tolerance.
C28_Witness ==
    /\ pc = "done"
    /\ \E b \in 1..Len(buys) : buys[b].merged
    /\ \E b \in 1..Len(buys) :
         ~buys[b].merged /\ buys[b].mergeGroupIds # <<>>
    /\ \E i \in 1..Len(yesQueue) : yesQueue[i].remaining < Eps

\* ----------------------------------------------------------------- C29
\* s is t or t with more at its end.
IsPrefix(s, t) == Len(s) <= Len(t) /\ SubSeq(t, 1, Len(s)) = s

\* A step leaves the merge groups of every buy in place and changes
\* nothing of a buy that is merged.
GroupsGrowMergedFinal ==
    /\ Len(buys') >= Len(buys)
    /\ \A b \in 1..Len(buys) :
         /\ IsPrefix(buys[b].mergeGroupIds, buys'[b].mergeGroupIds)
         /\ buys[b].merged =>
              /\ buys'[b].consumedSize = buys[b].consumedSize
              /\ buys'[b].merged
              /\ buys'[b].mergeGroupIds = buys[b].mergeGroupIds

\* C29 as stated: no step makes a buy's consumedSize smaller or takes a
\* merge group from its mergeGroupIds, and no step, the finalization pass
\* included, changes the consumedSize, merged flag or mergeGroupIds of a
\* buy that is merged.
C29_MonotoneAndFinal ==
    [][/\ GroupsGrowMergedFinal
       /\ \A b \in 1..Len(buys) :
            ~Less(buys'[b].consumedSize, buys[b].consumedSize)]_vars

\* C29 amended: the same, consumedSize being monotone for the buys whose
\* size is a number that is not negative.
C29_MonotoneForSizedBuys ==
    [][/\ GroupsGrowMergedFinal
       /\ \A b \in 1..Len(buys) :
            (IsNum(buys[b].size) /\ buys[b].size >= 0) =>
               /\ IsNum(buys'[b].consumedSize)
               /\ buys'[b].consumedSize >= buys[b].consumedSize]_vars

\* A buy of size 16 that two merges drew from and the second merged, after
\* the finalization pass.
C29_Witness ==
    /\ pc = "done"
    /\ mergeGroupCounter = 2
    /\ \E b \in 1..Len(buys) :
         /\ buys[b].merged
         /\ buys[b].size = 16
         /\ buys[b].mergeGroupIds = <<1, 2>>

\* ----------------------------------------------------------------- C30
\* An Error record was logged for a round: its payload names the round in
\* data.market, which is what makes a record one of the round for the
\* round query.
LoggedFor(i, mk) ==
    /\ store[i].event = "Error"
    /\ store[i].data.market = mk

C31_DeliveredOnce ==
    \A i, j \in 1..Len(stream.delivered) :
      i # j => stream.delivered[i] # stream.delivered[j]

\* ----------------------------------------------------------------- C32
\* The callback of the poll at place k ran to its end in this step: the
\* poll left and something was sent.
Ended(k) ==
    /\ stream.phase = "open"
    /\ k \in 1..Len(stream.polls)
    /\ stream'.polls = Without(stream.polls, k)
    /\ stream'.messages # stream.messages

\* The messages sent in this step.
Sent == SubSeq(stream'.messages, Len(stream.messages) + 1,
               Len(stream'.messages))

\* C32: a poll that succeeds sends its records and after them exactly one
\* heartbeat; a poll that fails sends exactly one 'error' message, leaves
\* the cursor unchanged and leaves the connection polling (the timer is
\* not cleared); after the client has closed the connection no poll is
\* started and nothing is sent.
C32_PollOutcome ==
    [][/\ \A k \in 1..Len(stream.polls) :
            Ended(k) =>
              /\ stream'.phase = "open"
              /\ IF stream.polls[k].phase = "found"
                 THEN LET docs == stream.polls[k].docs IN
                        /\ Len(Sent) = Len(docs) + 1
                        /\ \A i \in 1..Len(docs) :
                             Sent[i] = Message("event", docs[i]._id)
                        /\ Sent[Len(Sent)] = Message("heartbeat", 0)
                 ELSE /\ Sent = <<Message("error", 0)>>
                      /\ stream'.lastId = stream.lastId
       /\ stream.phase = "closed" =>
            /\ stream'.started = stream.started
            /\ stream'.messages = stream.messages
            /\ stream'.phase = "closed"]_vars

\* A connection on which a poll has failed, a later poll has delivered a
\* record and sent its heartbeat, and which the client then closed.
C32_Witness ==
    /\ stream.phase = "closed"
    /\ \E i, j \in 1..Len(stream.messages) :
         /\ i < j
         /\ j < Len(stream.messages)
         /\ stream.messages[i].kind = "error"
         /\ stream.messages[j].kind = "event"
         /\ stream.messages[Len(stream.messages)].kind = "heartbeat"

\* ----------------------------------------------------------------- C33
\* C33: after disconnect() has been called, also by the unmount, and until
\* the caller calls connect(), no EventSource is held and the client is
\* not connected, whatever reconnect timers were armed before.
C33_StaysDisconnected ==
    client.phase \in {"disconnected", "unmounted"} =>
      /\ client.eventSource = "null"
      /\ ~client.connected

\* ----------------------------------------------------------------- C34
\* Record i was appended after the first connection was established and
\* the connection now served started at or after it: no poll of this
\* connection, and of none opened later, finds it.
Skipped(i) ==
    /\ client.base >= 0
    /\ i > client.base
    /\ stream.phase = "open"
    /\ stream.existing >= i

\* C34: no notification is lost across a reconnect: while the page is
\* mounted, a record appended since the stream was established is never
\* skipped by the stream without having been passed to the callbacks.
C34_NothingLost ==
    client.phase = "connected" =>
      \A i \in 1..Len(store) : Skipped(i) => i \in Range(client.passed)

\* ----------------------------------------------------------------- C35
\* No fetch is waiting for its answer, no callback for the listing and no
\* auto-track timer is armed.
Settled ==
    /\ ui.phase = "mounted"
    /\ ui.pending = <<>>
    /\ ui.callbacks = <<>>
    /\ ui.timers = <<>>

\* C35: once every pending fetch and every auto-track timer has completed
\* and no fetch has reported a failure, the round shown is the selected
\* one.
C35_ShownIsSelected ==
    Settled /\ ui.selectedMarket # "" /\ ~ui.roundError =>
      ui.roundData.market = ui.selectedMarket

\* ----------------------------------------------------------------- C36
\* A trade message has a price: its text parses and its p begins with a
\* number.
Priced(msg) == msg.parses /\ msg.p \in {"7", "8", "9abc"}

\* The points of the priced messages received since the series was
\* cleared, in arrival order.
Points ==
    LET priced == SelectSeq(feed.heard, Priced)
    IN [i \in 1..Len(priced) |-> PointOf(priced[i])]

\* C36: cryptoPrice holds at most MAX_POINTS points, they are the most
\* recently received priced points in arrival order, and
\* latestCryptoPrice is the price of the last one; messages without a
\* price change nothing.
C36_SeriesBounded ==
    /\ Len(feed.cryptoPrice) <= MAX_POINTS
    /\ \E drop \in 0..Len(Points) :
         /\ feed.cryptoPrice = SubSeq(Points, drop + 1, Len(Points))
         /\ drop > 0 => Len(feed.cryptoPrice) = MAX_POINTS
    /\ feed.latestCryptoPrice =
         IF Points = <<>> THEN NullPrice ELSE Points[Len(Points)].y

\* More priced messages than the series holds were received, and after
\* the last of them a message without a price.
C36_Witness ==
    /\ Len(Points) > MAX_POINTS
    /\ ~Priced(feed.heard[Len(feed.heard)])
    /\ Len(feed.cryptoPrice) = MAX_POINTS

\* ----------------------------------------------------------------- C37
\* The WebSocket held by the feed is open.
HeldOpen ==
    /\ feed.binanceWs # 0
    /\ feed.sockets[feed.binanceWs].state = "open"

\* C37: connected is true exactly when the WebSocket held is open.
C37_ConnectedIffOpen == feed.connected <=> HeldOpen

\* ----------------------------------------------------------------- C38
\* C38: after stop() no WebSocket is held and none is connecting or open
\* until start() is called again; once no start() waits for its answer,
\* a socket held is the one of the slug requested last.
C38_StopStopsAll ==
    /\ feed.requested = "" =>
         /\ feed.binanceWs = 0
         /\ \A n \in 1..Len(feed.sockets) :
              feed.sockets[n].state \notin {"connecting", "open"}
    /\ feed.requested # "" /\ feed.starts = <<>> /\ feed.binanceWs # 0 =>
         feed.sockets[feed.binanceWs].symbol
           = DetectCryptoSymbol(feed.requested)

\* ----------------------------------------------------------------- C39
\* A request for slug arrived in this step.
Asked(slug) ==
    /\ cache'.requests = cache.requests + 1
    /\ \/ cache'.response.slug = slug /\ cache'.response # cache.response
       \/ cache'.hits > cache.hits /\ cache'.response.slug = slug
       \/ /\ Len(cache'.resolving) > Len(cache.resolving)
          /\ cache'.resolving[Len(cache'.resolving)].slug = slug

\* Slug was resolved successfully less than five minutes ago.
ResolvedLately(slug) ==
    /\ cache.entries[slug].present
    /\ cache.now - cache.entries[slug].setAt < CACHE_TTL_MS

\* A resolution ended in this step.
ResolutionEnded == Len(cache'.resolving) < Len(cache.resolving)

\* C39: a request for a slug resolved less than five minutes ago returns
\* the cached data without an external call; a request at or after the
\* expiry resolves again, and its success replaces the entry; a failed
\* resolution leaves the cache unchanged, and what the cache serves is
\* never an error.
C39_CacheContract ==
    [][/\ \A slug \in CacheSlugs :
            Asked(slug) =>
              IF ResolvedLately(slug)
              THEN /\ cache'.response =
                        [slug |-> slug, status |-> 200,
                         data |-> cache.entries[slug].data]
                   /\ cache'.calls = cache.calls
                   /\ cache'.resolving = cache.resolving
                   /\ cache'.entries = cache.entries
              ELSE /\ cache'.calls = cache.calls + 1
                   /\ Len(cache'.resolving) = Len(cache.resolving) + 1
                   /\ cache'.hits = cache.hits
       /\ ResolutionEnded =>
            IF cache'.response.status = 200
            THEN LET slug == cache'.response.slug IN
                   /\ cache'.entries[slug].present
                   /\ cache'.entries[slug].data = cache'.response.data
                   /\ cache'.entries[slug].data # cache.entries[slug].data
                   /\ cache'.entries[slug].setAt = cache.now
            ELSE cache'.entries = cache.entries
       /\ \A slug \in CacheSlugs :
            cache'.entries[slug].present => cache'.entries[slug].data > 0
      ]_vars

\* A slug was resolved, a later request was answered from the cache, and
\* after the expiry the slug was resolved again, which replaced the entry;
\* the last resolution, of the other slug, failed and left no entry.
C39_Witness ==
    /\ cache.hits > 0
    /\ cache.response.status \notin {0, 200}
    /\ cache.response.slug \in CacheSlugs
    /\ \E slug \in CacheSlugs :
         /\ cache.entries[slug].present
         /\ cache.entries[slug].data = 2
         /\ cache.entries[slug].setAt >= CACHE_TTL_MS
         /\ cache.response.slug # slug
         /\ ~cache.entries[cache.response.slug].present

TypeOK ==
    /\ pc \in {"loop", "done"}
    /\ Len(events) <= InputLimit
    /\ mergeGroupCounter \in 0..InputLimit

====
